---- MODULE Spec2Model ----
(***************************************************************************)
(* A model of coredns-dockerdiscovery: the container registry and the DNS  *)
(* answer engine (dockerdiscovery.go), the domain resolvers (resolvers.go),*)
(* the Cloudflare DNS syncer (cloudflare.go) and the Cloudflare Tunnel     *)
(* syncer (tunnel.go), against the in-memory provider of the test suite.   *)
(*                                                                         *)
(* Strings the code inspects character by character (domain names, zone    *)
(* suffixes, CNAME targets) are sequences of one-character strings, so     *)
(* that concatenation, suffix tests and case folding are computed.         *)
(* Strings that are only compared for equality (ids, network names,        *)
(* service URLs, IP address literals) are TLA+ strings.                    *)
(***************************************************************************)
EXTENDS Integers, Sequences, FiniteSets, TLC

VARIABLES
    traefikCNAME,       \* DockerDiscovery.traefikCNAME ("" = unset)
    traefikA,           \* DockerDiscovery.traefikA (NoIP = nil)
    containerInfoMap,   \* DockerDiscovery.containerInfoMap: id -> ContainerInfo or NoInfo
    resp,               \* the outcome of the ServeDNS call served in the current registry state
    records,            \* provider: zoneID -> sequence of DNS records
    nextID,             \* provider: the id the next created record gets
    tunnelIngress,      \* provider: the tunnel's ingress rule list
    tunnelOrigin,       \* provider: the tunnel's origin request configuration
    tunnelWarp,         \* provider: the tunnel's WARP routing configuration (NoWarp = nil)
    calls,              \* the provider calls made by the last syncer call, in order
    last,               \* the last syncer call: its arguments and the provider state it started from
    tunnelSyncer,       \* DockerDiscovery.tunnelSyncer != nil
    mutex,              \* DockerDiscovery.mutex (sync.RWMutex): its writer and its readers
    mu,                 \* TunnelSyncer.mu (sync.Mutex): held or not
    routines,           \* the goroutines that have not returned, in the order they were started
    events              \* the Docker events the event loop has not received yet

vars == <<traefikCNAME, traefikA, containerInfoMap, resp,
          records, nextID, tunnelIngress, tunnelOrigin, tunnelWarp, calls, last,
          tunnelSyncer, mutex, mu, routines, events>>

\* the fields the goroutines of the plugin share, idle when calls are taken one at a time
runVars == <<tunnelSyncer, mutex, mu, routines, events>>

dnsVars == <<traefikCNAME, traefikA, containerInfoMap, resp, tunnelSyncer, mutex, mu, routines, events>>
syncVars == <<records, nextID, tunnelIngress, tunnelOrigin, tunnelWarp, calls, last>>

\* cloudflare.OriginRequestConfig{}: the origin configuration of a tunnel nobody configured
NoOrigin == "OriginRequestConfig{}"

\* a nil *cloudflare.WarpRoutingConfig
NoWarp == "nil"

----------------------------------------------------------------------------
(* Generic helpers on sequences.                                           *)

Range(s) == {s[i] : i \in 1..Len(s)}

\* strings.HasSuffix(s, suffix)
HasSuffix(s, suffix) ==
    /\ Len(s) >= Len(suffix)
    /\ SubSeq(s, Len(s) - Len(suffix) + 1, Len(s)) = suffix

\* strings.HasPrefix(s, prefix)
HasPrefix(s, prefix) ==
    /\ Len(s) >= Len(prefix)
    /\ SubSeq(s, 1, Len(prefix)) = prefix

\* all orders in which a Go map with key set S may be iterated
Orders(S) == {o \in [1..Cardinality(S) -> S] : Range(o) = S}

RECURSIVE Flatten(_)
Flatten(ss) == IF ss = <<>> THEN <<>> ELSE Head(ss) \o Flatten(Tail(ss))

----------------------------------------------------------------------------
(* Addresses.                                                              *)

NoIP == "nil"
ValidIPv4 == {"10.0.0.1", "10.0.0.2", "9.9.9.9"}
ValidIPv6 == {"fd00::1"}

\* net.ParseIP: nil for the empty string and for anything that is not an address
ParseIP(s) == IF s \in ValidIPv4 \cup ValidIPv6 THEN s ELSE NoIP

DefaultTTL == 3600

----------------------------------------------------------------------------
(* Containers (dockerapi.Container) and the domain resolvers.              *)
(* A label key is the sequence of its dot-separated segments; every label  *)
(* value, container name and network name is a sequence of characters.     *)

HostLabel == <<"coredns", "dockerdiscovery", "host">>
NetworkLabel == <<"coredns", "dockerdiscovery", "network">>
ComposeProjectLabel == <<"com", "docker", "compose", "project">>
ComposeServiceLabel == <<"com", "docker", "compose", "service">>

\* normalizeContainerName: strings.TrimLeft(container.Name, "/")
RECURSIVE normalizeContainerName(_)
normalizeContainerName(name) ==
    IF name # <<>> /\ Head(name) = "/" THEN normalizeContainerName(Tail(name)) ELSE name

\* fmt.Sprintf("%s.%s", a, b)
SubDomain(a, b) == a \o <<".">> \o b

\* SubDomainContainerNameResolver.resolve
SubDomainContainerNameResolver(container, domain) ==
    << SubDomain(normalizeContainerName(container.Name), domain) >>

\* SubDomainHostResolver.resolve
SubDomainHostResolver(container, domain) ==
    << SubDomain(container.Hostname, domain) >>

\* LabelResolver.resolve: the value of the host label, whatever it is
LabelResolver(container, hostLabel) ==
    IF hostLabel \in DOMAIN container.Labels THEN << container.Labels[hostLabel] >> ELSE <<>>

\* ComposeResolver.resolve
ComposeResolver(container, domain) ==
    IF ComposeProjectLabel \in DOMAIN container.Labels /\ ComposeServiceLabel \in DOMAIN container.Labels
    THEN << SubDomain(container.Labels[ComposeServiceLabel],
                      SubDomain(container.Labels[ComposeProjectLabel], domain)) >>
    ELSE <<>>

\* NetworkAliasesResolver.resolve; netOrder is the iteration order of the Networks map
NetworkAliasesResolver(container, network, netOrder) ==
    IF network # <<>>
    THEN IF network \in DOMAIN container.Networks THEN container.Networks[network].Aliases ELSE <<>>
    ELSE Flatten([i \in 1..Len(netOrder) |-> container.Networks[netOrder[i]].Aliases])

\* isTraefikRouterRule: prefix "traefik.http.routers." and suffix ".rule"
isTraefikRouterRule(label) ==
    /\ Len(label) >= 4
    /\ HasPrefix(label, <<"traefik", "http", "routers">>)
    /\ HasSuffix(label, <<"rule">>)

(* A rule text is written over an alphabet in which "<" stands for the     *)
(* literal "Host(`", "[" for "HostSNI(`" and ">" for "`)"; all three       *)
(* contain a backtick, the others do not.                                  *)
IsOpen(ch) == ch \in {"<", "["}
HasBacktick(ch) == ch \in {"<", "[", ">"}

\* index of the first character at or after i that contains a backtick, 0 if none
RECURSIVE NextBacktick(_, _)
NextBacktick(s, i) ==
    IF i > Len(s) THEN 0 ELSE IF HasBacktick(s[i]) THEN i ELSE NextBacktick(s, i + 1)

\* traefikHostMatcher.FindAllStringSubmatch(value, -1), the first groups:
\* Host(?:SNI)?\(`([^`]+)`\), leftmost and non-overlapping
RECURSIVE FindAllHosts(_, _)
FindAllHosts(s, i) ==
    IF i > Len(s) THEN <<>>
    ELSE IF ~IsOpen(s[i]) THEN FindAllHosts(s, i + 1)
    ELSE LET j == NextBacktick(s, i + 1) IN
         IF j > i + 1 /\ s[j] = ">"
         THEN << SubSeq(s, i + 1, j - 1) >> \o FindAllHosts(s, j + 1)
         ELSE FindAllHosts(s, i + 1)

\* strings.ToLower on the alphabet of the model
LowerChar(ch) == CASE ch = "T" -> "t" [] ch = "X" -> "x" [] ch = "D" -> "d" [] OTHER -> ch
ToLower(s) == [i \in 1..Len(s) |-> LowerChar(s[i])]

\* append the hosts not seen before, in order
RECURSIVE AppendUnseen(_, _)
AppendUnseen(domains, hosts) ==
    IF hosts = <<>> THEN domains
    ELSE AppendUnseen(IF Head(hosts) \in Range(domains) THEN domains ELSE Append(domains, Head(hosts)),
                      Tail(hosts))

\* TraefikLabelResolver.resolve; labelOrder is the iteration order of the Labels map
RECURSIVE TraefikLabelResolver(_, _)
TraefikLabelResolver(container, labelOrder) ==
    IF labelOrder = <<>> THEN <<>>
    ELSE LET label == labelOrder[Len(labelOrder)]
             before == TraefikLabelResolver(container, SubSeq(labelOrder, 1, Len(labelOrder) - 1))
         IN IF ~isTraefikRouterRule(label) THEN before
            ELSE AppendUnseen(before,
                     LET m == FindAllHosts(container.Labels[label], 1)
                     IN [k \in 1..Len(m) |-> ToLower(m[k])])

(* dd.resolvers as createPlugin builds it: the label resolver first, then   *)
(* one resolver per directive in configuration order.                      *)
resolvers ==
    << [kind |-> "label", hostLabel |-> HostLabel],
       [kind |-> "domain", domain |-> <<"d">>],
       [kind |-> "hostname_domain", domain |-> <<"h", "d">>],
       [kind |-> "compose_domain", domain |-> <<"c", "d">>],
       [kind |-> "network_aliases", network |-> <<"n", "1">>] >>

Resolve(resolver, container, netOrder) ==
    CASE resolver.kind = "label" -> LabelResolver(container, resolver.hostLabel)
      [] resolver.kind = "domain" -> SubDomainContainerNameResolver(container, resolver.domain)
      [] resolver.kind = "hostname_domain" -> SubDomainHostResolver(container, resolver.domain)
      [] resolver.kind = "compose_domain" -> ComposeResolver(container, resolver.domain)
      [] resolver.kind = "network_aliases" -> NetworkAliasesResolver(container, resolver.network, netOrder)

\* dd.traefikResolver != nil: set together with either traefik target
traefikResolverSet(cname, a) == cname # <<>> \/ a # NoIP

\* resolveDomainsByContainer: (domains, cnameDomains)
resolveDomainsByContainer(container, labelOrder, netOrder, cname, a) ==
    [ domains |-> Flatten([i \in 1..Len(resolvers) |-> Resolve(resolvers[i], container, netOrder)]),
      cnameDomains |-> IF traefikResolverSet(cname, a)
                       THEN TraefikLabelResolver(container, labelOrder)
                       ELSE <<>> ]

----------------------------------------------------------------------------
(* Address resolution and the registry.                                    *)

ContainerIDs == {"c1", "c2"}

InspectError == [err |-> TRUE]

\* HostConfig.NetworkMode: "host", "container:<id>" or a network name
IsContainerMode(mode) == HasPrefix(mode, <<"container", ":">>)
OtherID(mode) == mode[3]

(* getContainerAddress.  inspect is what InspectContainerWithOptions       *)
(* returns for each id; hops bounds the indirections followed, and the     *)
(* result "loops" stands for a loop that never ends.                       *)
RECURSIVE getContainerAddressFrom(_, _, _, _, _, _)
getContainerAddressFrom(container, hasNetName, netName, v6, inspect, hops) ==
    IF container.IPAddress # "" /\ ~hasNetName /\ ~v6
    THEN [ip |-> ParseIP(container.IPAddress), err |-> FALSE, loops |-> FALSE]
    ELSE IF container.GlobalIPv6Address # "" /\ ~hasNetName /\ v6
    THEN [ip |-> ParseIP(container.GlobalIPv6Address), err |-> FALSE, loops |-> FALSE]
    ELSE IF container.NetworkMode = <<"host">>
    THEN [ip |-> NoIP, err |-> FALSE, loops |-> FALSE]
    ELSE IF IsContainerMode(container.NetworkMode)
    THEN IF hops = 0
         THEN [ip |-> NoIP, err |-> FALSE, loops |-> TRUE]
         ELSE IF inspect[OtherID(container.NetworkMode)] = InspectError
         THEN [ip |-> NoIP, err |-> TRUE, loops |-> FALSE]
         ELSE getContainerAddressFrom(inspect[OtherID(container.NetworkMode)],
                                      hasNetName, netName, v6, inspect, hops - 1)
    ELSE LET nets == container.Networks
             ok == IF hasNetName THEN netName \in DOMAIN nets
                   ELSE Cardinality(DOMAIN nets) = 1
             network == IF hasNetName THEN nets[netName]
                        ELSE nets[CHOOSE n \in DOMAIN nets : TRUE]
         IN IF ~ok THEN [ip |-> NoIP, err |-> TRUE, loops |-> FALSE]
            ELSE IF ~v6 THEN [ip |-> ParseIP(network.IPAddress), err |-> FALSE, loops |-> FALSE]
            ELSE IF network.GlobalIPv6Address # ""
            THEN [ip |-> ParseIP(network.GlobalIPv6Address), err |-> FALSE, loops |-> FALSE]
            ELSE [ip |-> NoIP, err |-> FALSE, loops |-> FALSE]

\* a chain of more indirections than there are containers has a cycle
MaxHops == Cardinality(ContainerIDs) + 1

\* resolution that only ever reads the top-level address
getContainerAddressTopOnly(container, v6, inspect) ==
    [ip |-> ParseIP(IF v6 THEN container.GlobalIPv6Address ELSE container.IPAddress),
     err |-> FALSE, loops |-> FALSE]

getContainerAddress(container, v6, inspect) ==
    getContainerAddressFrom(container,
        NetworkLabel \in DOMAIN container.Labels,
        IF NetworkLabel \in DOMAIN container.Labels THEN container.Labels[NetworkLabel] ELSE <<>>,
        v6, inspect, MaxHops)

NoInfo == [present |-> FALSE]

\* the domains kept whatever the address is
KeepDomains(domains, containerAddress) == domains

\* without an address the A/AAAA domains are dropped
DropDomains(domains, containerAddress) ==
    IF containerAddress = NoIP /\ Len(domains) > 0 THEN <<>> ELSE domains

\* an entry stored whatever was resolved
NewContainerInfoAlways(container, labelOrder, netOrder, inspect, cname, a) ==
    LET r == resolveDomainsByContainer(container, labelOrder, netOrder, cname, a)
        containerAddress == getContainerAddress(container, FALSE, inspect).ip
    IN [present |-> TRUE, ID |-> container.ID,
        address |-> containerAddress, address6 |-> NoIP,
        domains |-> DropDomains(r.domains, containerAddress), cnameDomains |-> r.cnameDomains]

\* the ContainerInfo that updateContainerInfo computes, NoInfo when nothing is stored
NewContainerInfo(container, labelOrder, netOrder, inspect, cname, a) ==
    LET r == resolveDomainsByContainer(container, labelOrder, netOrder, cname, a)
        containerAddress == getContainerAddress(container, FALSE, inspect).ip
        containerAddress6 == IF containerAddress # NoIP
                             THEN getContainerAddress(container, TRUE, inspect).ip
                             ELSE NoIP
        domains == DropDomains(r.domains, containerAddress)
    IN IF Len(domains) > 0 \/ Len(r.cnameDomains) > 0
       THEN [present |-> TRUE, ID |-> container.ID,
             address |-> containerAddress, address6 |-> containerAddress6,
             domains |-> domains, cnameDomains |-> r.cnameDomains]
       ELSE NoInfo

\* fmt.Sprintf("%s.", d)
Fqdn(d) == d \o <<".">>

\* the match of one entry in containerInfoByDomain: plain domains first, then CNAME domains
MatchEntry(containerInfo, requestName) ==
    IF \E i \in 1..Len(containerInfo.domains) : Fqdn(containerInfo.domains[i]) = requestName
    THEN [found |-> TRUE, containerInfo |-> containerInfo, isCNAME |-> FALSE]
    ELSE IF \E i \in 1..Len(containerInfo.cnameDomains) : Fqdn(containerInfo.cnameDomains[i]) = requestName
    THEN [found |-> TRUE, containerInfo |-> containerInfo, isCNAME |-> TRUE]
    ELSE [found |-> FALSE]

\* containerInfoByDomain; mapOrder is the iteration order of containerInfoMap
RECURSIVE containerInfoByDomain(_, _, _)
containerInfoByDomain(infoMap, mapOrder, requestName) ==
    IF mapOrder = <<>> THEN [found |-> FALSE]
    ELSE LET m == MatchEntry(infoMap[Head(mapOrder)], requestName)
         IN IF m.found THEN m ELSE containerInfoByDomain(infoMap, Tail(mapOrder), requestName)

\* the ids that have an entry
Registered(infoMap) == {id \in ContainerIDs : infoMap[id].present}

----------------------------------------------------------------------------
(* The containers the event source may report.                             *)

Router1 == <<"traefik", "http", "routers", "r1", "rule">>
Router2 == <<"traefik", "http", "routers", "r2", "rule">>

NoLabels == [l \in {} |-> <<>>]

RuleT == Router1 :> <<"<", "t", ".", "d", ">">>
RuleTX == Router1 :> <<"<", "T", ".", "d", ">", "|", "[", "x", ".", "d", ">", "<", ">">>
RuleWX == (Router1 :> <<"<", "w", ".", "d", ">">>) @@ (Router2 :> <<"<", "x", ".", "d", ">">>)
HostEmpty == HostLabel :> <<>>
HostT == HostLabel :> <<"t", ".", "d">>
ComposeN2 == (ComposeProjectLabel :> <<"p">>) @@ (ComposeServiceLabel :> <<"s">>)
                                              @@ (NetworkLabel :> <<"n", "2">>)

NoNetworks == [n \in {} |-> <<>>]
Net1 == [IPAddress |-> "10.0.0.1", GlobalIPv6Address |-> "fd00::1", Aliases |-> << <<"a", ".", "d">> >>]
Net2 == [IPAddress |-> "10.0.0.2", GlobalIPv6Address |-> "", Aliases |-> <<>>]

NetTop == [NetworkMode |-> <<"b">>, IPAddress |-> "10.0.0.2", GlobalIPv6Address |-> "",
           Networks |-> NoNetworks]
NetNone == [NetworkMode |-> <<"b">>, IPAddress |-> "", GlobalIPv6Address |-> "",
            Networks |-> NoNetworks]

NetOne == [NetworkMode |-> <<"n", "1">>, IPAddress |-> "", GlobalIPv6Address |-> "",
           Networks |-> (<<"n", "1">> :> Net1)]
NetTwo == [NetworkMode |-> <<"n", "1">>, IPAddress |-> "", GlobalIPv6Address |-> "",
           Networks |-> (<<"n", "1">> :> Net1) @@ (<<"n", "2">> :> Net2)]
NetBogus == [NetworkMode |-> <<"b">>, IPAddress |-> "bogus", GlobalIPv6Address |-> "",
             Networks |-> NoNetworks]
NetHost == [NetworkMode |-> <<"host">>, IPAddress |-> "", GlobalIPv6Address |-> "",
            Networks |-> NoNetworks]
NetOther == [NetworkMode |-> <<"container", ":", "c2">>, IPAddress |-> "", GlobalIPv6Address |-> "",
             Networks |-> NoNetworks]

\* the name of each container ("/t" as the Docker API reports it, "w" as the tests write it)
NameOf(id) == IF id = "c1" THEN <<"/", "t">> ELSE <<"w">>

MkContainer(id, labels, net) ==
    [ID |-> id, Name |-> NameOf(id), Hostname |-> <<"h">>, Labels |-> labels,
     NetworkMode |-> net.NetworkMode, IPAddress |-> net.IPAddress,
     GlobalIPv6Address |-> net.GlobalIPv6Address, Networks |-> net.Networks]

Containers ==
    { MkContainer("c1", labels, net) :
        labels \in {NoLabels, RuleT, RuleTX, HostEmpty}, net \in {NetTop, NetNone} }
    \cup
    { MkContainer("c1", NoLabels, net) : net \in {NetOne, NetOther} }
    \cup
    { MkContainer("c2", labels, net) :
        labels \in {RuleT, RuleWX, ComposeN2}, net \in {NetTop, NetNone, NetTwo} }
    \cup
    { MkContainer("c2", HostT, net) : net \in {NetBogus, NetHost} }

\* what InspectContainerWithOptions may return for the container another one points at
InspectOutcomes ==
    { InspectError,
      MkContainer("c2", NoLabels, NetTop),
      MkContainer("c2", NoLabels, NetOther) }

InspectChoices(container) ==
    IF IsContainerMode(container.NetworkMode)
    THEN {[id \in ContainerIDs |-> o] : o \in InspectOutcomes}
    ELSE {[id \in ContainerIDs |-> InspectError]}

----------------------------------------------------------------------------
(* The registry operations and the DNS handler.                            *)

QTypes == {"A", "AAAA", "CNAME", "MX"}
QNames == { <<"t", ".", "d", ".">>, <<"w", ".", "d", ".">>, <<"x", ".", "d", ".">> }

NoResp == [qtype |-> "none"]

\* the configurations createPlugin accepts for the traefik targets
TraefikConfigs ==
    { [cname |-> <<>>, a |-> NoIP],
      [cname |-> <<"i", ".", "d">>, a |-> NoIP],
      [cname |-> <<>>, a |-> "9.9.9.9"] }

\* a store that keeps the previous entry when nothing is to be stored
StoreEntryKeep(infoMap, id, info) ==
    IF info.present THEN [infoMap EXCEPT ![id] = info] ELSE infoMap

\* the map after updateContainerInfo: the previous entry deleted, the new one stored if any
StoreEntry(infoMap, id, info) == [infoMap EXCEPT ![id] = info]

\* a removal that leaves the map as it is
RemoveEntryNever(infoMap, id) == infoMap

\* the map after removeContainerInfo
RemoveEntry(infoMap, id) ==
    IF ~infoMap[id].present THEN infoMap ELSE [infoMap EXCEPT ![id] = NoInfo]

\* updateContainerInfo: the entry is dropped and recomputed under the write lock
updateContainerInfo(container) ==
    \E labelOrder \in Orders(DOMAIN container.Labels),
       netOrder \in Orders(DOMAIN container.Networks),
       inspect \in InspectChoices(container) :
        /\ ~getContainerAddress(container, FALSE, inspect).loops
        /\ containerInfoMap' = StoreEntry(containerInfoMap, container.ID,
               NewContainerInfo(container, labelOrder, netOrder, inspect, traefikCNAME, traefikA))
        /\ resp' = NoResp
        /\ UNCHANGED <<runVars, traefikCNAME, traefikA>>

\* removeContainerInfo
removeContainerInfo(containerID) ==
    /\ containerInfoMap' = RemoveEntry(containerInfoMap, containerID)
    /\ resp' = NoResp
    /\ UNCHANGED <<runVars, traefikCNAME, traefikA>>

\* getCNAMEAnswer
getCNAMEAnswer(zone, target, ttl) ==
    << [Name |-> zone, Rrtype |-> "CNAME", Ttl |-> ttl,
        Data |-> IF HasSuffix(target, <<".">>) THEN target ELSE target \o <<".">>] >>

\* getAnswer
getAnswer(zone, ips, ttl, v6) ==
    [i \in 1..Len(ips) |-> [Name |-> zone, Rrtype |-> IF v6 THEN "AAAA" ELSE "A", Ttl |-> ttl,
                            Data |-> ips[i]]]

\* Answers with the traefik_a branch of the A query left out
AnswersWithoutTraefikA(qtype, qname, result, cname, a) ==
    CASE qtype = "A" ->
            IF result.found /\ result.isCNAME
            THEN IF cname # <<>> THEN getCNAMEAnswer(qname, cname, DefaultTTL) ELSE <<>>
            ELSE IF result.found
            THEN getAnswer(qname, <<result.containerInfo.address>>, DefaultTTL, FALSE)
            ELSE <<>>
      [] qtype = "AAAA" ->
            IF result.found /\ result.isCNAME
            THEN IF cname # <<>> THEN getCNAMEAnswer(qname, cname, DefaultTTL) ELSE <<>>
            ELSE IF result.found /\ result.containerInfo.address6 # NoIP
            THEN getAnswer(qname, <<result.containerInfo.address6>>, DefaultTTL, TRUE)
            ELSE <<>>
      [] qtype = "CNAME" ->
            IF result.found /\ result.isCNAME /\ cname # <<>>
            THEN getCNAMEAnswer(qname, cname, DefaultTTL)
            ELSE <<>>
      [] OTHER -> <<>>

\* Answers with the CNAME query answered for every known name
AnswersCnameForAny(qtype, qname, result, cname, a) ==
    CASE qtype = "A" ->
            IF result.found /\ result.isCNAME
            THEN IF cname # <<>> THEN getCNAMEAnswer(qname, cname, DefaultTTL)
                 ELSE IF a # NoIP THEN getAnswer(qname, <<a>>, DefaultTTL, FALSE)
                 ELSE <<>>
            ELSE IF result.found
            THEN getAnswer(qname, <<result.containerInfo.address>>, DefaultTTL, FALSE)
            ELSE <<>>
      [] qtype = "AAAA" ->
            IF result.found /\ result.isCNAME
            THEN IF cname # <<>> THEN getCNAMEAnswer(qname, cname, DefaultTTL) ELSE <<>>
            ELSE IF result.found /\ result.containerInfo.address6 # NoIP
            THEN getAnswer(qname, <<result.containerInfo.address6>>, DefaultTTL, TRUE)
            ELSE <<>>
      [] qtype = "CNAME" ->
            IF result.found /\ cname # <<>>
            THEN getCNAMEAnswer(qname, cname, DefaultTTL)
            ELSE <<>>
      [] OTHER -> <<>>

\* the answers ServeDNS collects for a query, given its lookup result
Answers(qtype, qname, result, cname, a) ==
    CASE qtype = "A" ->
            IF result.found /\ result.isCNAME
            THEN IF cname # <<>> THEN getCNAMEAnswer(qname, cname, DefaultTTL)
                 ELSE IF a # NoIP THEN getAnswer(qname, <<a>>, DefaultTTL, FALSE)
                 ELSE <<>>
            ELSE IF result.found
            THEN getAnswer(qname, <<result.containerInfo.address>>, DefaultTTL, FALSE)
            ELSE <<>>
      [] qtype = "AAAA" ->
            IF result.found /\ result.isCNAME
            THEN IF cname # <<>> THEN getCNAMEAnswer(qname, cname, DefaultTTL) ELSE <<>>
            ELSE IF result.found /\ result.containerInfo.address6 # NoIP
            THEN getAnswer(qname, <<result.containerInfo.address6>>, DefaultTTL, TRUE)
            ELSE <<>>
      [] qtype = "CNAME" ->
            IF result.found /\ result.isCNAME /\ cname # <<>>
            THEN getCNAMEAnswer(qname, cname, DefaultTTL)
            ELSE <<>>
      [] OTHER -> <<>>

\* IsNoData without the NODATA branch: the query falls through to dd.Next
IsNoDataNever(qtype, result) == FALSE

\* the AAAA branch that writes the NODATA reply itself and returns
IsNoData(qtype, result) ==
    /\ qtype = "AAAA"
    /\ result.found
    /\ ~result.isCNAME
    /\ result.containerInfo.address6 = NoIP
    /\ result.containerInfo.address # NoIP

\* what ServeDNS does with a query: the reply it writes, or the delegation to dd.Next
Reply(qtype, qname, result, cname, a) ==
    LET answers == Answers(qtype, qname, result, cname, a) IN
    IF IsNoData(qtype, result)
    THEN [qtype |-> qtype, qname |-> qname, result |-> result, next |-> FALSE, written |-> TRUE,
          Rcode |-> "NOERROR", Authoritative |-> TRUE, Answer |-> <<>>]
    ELSE IF Len(answers) = 0
    THEN [qtype |-> qtype, qname |-> qname, result |-> result, next |-> TRUE, written |-> FALSE,
          Rcode |-> "", Authoritative |-> FALSE, Answer |-> <<>>]
    ELSE [qtype |-> qtype, qname |-> qname, result |-> result, next |-> FALSE, written |-> TRUE,
          Rcode |-> "NOERROR", Authoritative |-> TRUE, Answer |-> answers]

\* ServeDNS: one lookup under the read lock, then the reply
ServeDNS(qtype, qname) ==
    \E mapOrder \in Orders(Registered(containerInfoMap)) :
        /\ resp' = Reply(qtype, qname,
                         containerInfoByDomain(containerInfoMap, mapOrder, qname),
                         traefikCNAME, traefikA)
        /\ UNCHANGED <<runVars, traefikCNAME, traefikA, containerInfoMap>>

\* the provider before any syncer call, as the syncer tests start: no record, no ingress rule
IdleSync ==
    /\ records = [z \in {"Z1", "Z2"} |-> <<>>]
    /\ nextID = 1
    /\ tunnelIngress = <<>>
    /\ tunnelOrigin = NoOrigin
    /\ tunnelWarp = NoWarp
    /\ calls = <<>>
    /\ last = [op |-> "none"]

\* sync.RWMutex with no holder: no writer, no reader
Unlocked == [writer |-> FALSE, readers |-> 0]

\* no goroutine runs, no lock is held and no event is pending
IdleRun ==
    /\ tunnelSyncer = FALSE
    /\ mutex = Unlocked
    /\ mu = FALSE
    /\ routines = <<>>
    /\ events = <<>>

InitDNS ==
    /\ \E cfg \in TraefikConfigs : traefikCNAME = cfg.cname /\ traefikA = cfg.a
    /\ containerInfoMap = [id \in ContainerIDs |-> NoInfo]
    /\ resp = NoResp
    /\ IdleSync
    /\ IdleRun

NextDNS ==
    \/ \E container \in Containers : updateContainerInfo(container) /\ UNCHANGED syncVars
    \/ \E id \in ContainerIDs : removeContainerInfo(id) /\ UNCHANGED syncVars
    \/ \E qtype \in QTypes, qname \in QNames : ServeDNS(qtype, qname) /\ UNCHANGED syncVars

SpecDNS == InitDNS /\ [][NextDNS]_vars

----------------------------------------------------------------------------
(* The registry with a CloudflareSyncer configured: each handler call is   *)
(* recorded in last with its input, the map it started from, the error it  *)
(* returned and the syncer calls it dispatched.                            *)

\* a network attachment without an address
NetEmpty == [IPAddress |-> "", GlobalIPv6Address |-> "", Aliases |-> <<>>]

\* one attachment, and a top-level address that the attachment lacks or repeats
NetOneTop == [NetworkMode |-> <<"n", "1">>, IPAddress |-> "10.0.0.2", GlobalIPv6Address |-> "",
              Networks |-> (<<"n", "1">> :> NetEmpty)]
NetOneBoth == [NetworkMode |-> <<"n", "1">>, IPAddress |-> "10.0.0.1", GlobalIPv6Address |-> "fd00::1",
               Networks |-> (<<"n", "1">> :> Net1)]
NetOneEmpty == [NetworkMode |-> <<"n", "1">>, IPAddress |-> "", GlobalIPv6Address |-> "",
                Networks |-> (<<"n", "1">> :> NetEmpty)]

RegistryContainers ==
    Containers \cup
    { MkContainer("c2", NoLabels, net) : net \in {NetOne, NetOneTop, NetOneBoth, NetOneEmpty} }

\* an update that dispatches nothing
UpdateDispatchNone(info) == <<>>

\* the go statements of updateContainerInfo
UpdateDispatch(info) ==
    IF info.present /\ Len(info.cnameDomains) > 0
    THEN << [op |-> "SyncDomains", names |-> info.cnameDomains] >>
    ELSE <<>>

\* the go statements of removeContainerInfo
RemoveDispatch(infoMap, containerID) ==
    IF infoMap[containerID].present /\ Len(infoMap[containerID].cnameDomains) > 0
    THEN << [op |-> "RemoveDomains", names |-> infoMap[containerID].cnameDomains] >>
    ELSE <<>>

\* updateContainerInfo with its return value and its dispatches
updateContainerInfoSynced(container) ==
    \E labelOrder \in Orders(DOMAIN container.Labels),
       netOrder \in Orders(DOMAIN container.Networks),
       inspect \in InspectChoices(container) :
        LET info == NewContainerInfo(container, labelOrder, netOrder, inspect, traefikCNAME, traefikA)
        IN /\ ~getContainerAddress(container, FALSE, inspect).loops
           /\ containerInfoMap' = StoreEntry(containerInfoMap, container.ID, info)
           /\ resp' = NoResp
           /\ last' = [op |-> "updateContainerInfo", container |-> container, id |-> container.ID,
                       inspect |-> inspect, infoMap |-> containerInfoMap, err |-> FALSE,
                       dispatched |-> UpdateDispatch(info)]
           /\ UNCHANGED <<runVars, traefikCNAME, traefikA, records, nextID, tunnelIngress, tunnelOrigin, tunnelWarp, calls>>

\* removeContainerInfo with its return value and its dispatches
removeContainerInfoSynced(containerID) ==
    /\ containerInfoMap' = RemoveEntry(containerInfoMap, containerID)
    /\ resp' = NoResp
    /\ last' = [op |-> "removeContainerInfo", id |-> containerID, infoMap |-> containerInfoMap,
                err |-> FALSE, dispatched |-> RemoveDispatch(containerInfoMap, containerID)]
    /\ UNCHANGED <<runVars, traefikCNAME, traefikA, records, nextID, tunnelIngress, tunnelOrigin, tunnelWarp, calls>>

NextRegistry ==
    \/ \E container \in RegistryContainers : updateContainerInfoSynced(container)
    \/ \E id \in ContainerIDs : removeContainerInfoSynced(id)

SpecRegistry == InitDNS /\ [][NextRegistry]_vars

----------------------------------------------------------------------------
(* The registry with both syncers: the routing of a container to the       *)
(* TunnelSyncer or to the CloudflareSyncer, as the implementation plan     *)
(* (phase 3, steps 12 to 17) lays it out for updateContainerInfo and       *)
(* removeContainerInfo.                                                    *)

TunnelLabel == <<"coredns", "dockerdiscovery", "cf_tunnel">>
ServicePortLabel == <<"traefik", "http", "services", "web", "loadbalancer", "server", "port">>

\* getTraefikServicePort: the port of the traefik service label, "" without one
getTraefikServicePort(labels) ==
    IF ServicePortLabel \in DOMAIN labels THEN labels[ServicePortLabel] ELSE <<>>

\* step 15: the service URL of the container, <<>> for none
tunnelServiceURL(container) ==
    IF TunnelLabel \notin DOMAIN container.Labels THEN <<>>
    ELSE LET value == container.Labels[TunnelLabel] IN
         IF value # <<>> /\ value # <<"true">> THEN value
         ELSE IF getTraefikServicePort(container.Labels) = <<>> THEN <<>>
         ELSE <<"http://localhost:">> \o getTraefikServicePort(container.Labels)

\* step 12: the entry with its service URL
WithServiceURL(info, url) ==
    IF info.present THEN info @@ [tunnelServiceURL |-> url] ELSE info

\* step 16: the go statement of updateContainerInfo
UpdateDispatchRouted(info, url) ==
    IF ~info.present THEN <<>>
    ELSE IF tunnelSyncer /\ url # <<>>
    THEN << [op |-> "AddRoutes", names |-> info.cnameDomains, serviceURL |-> url] >>
    ELSE UpdateDispatch(info)

\* step 17: the go statement of removeContainerInfo
RemoveDispatchRouted(infoMap, containerID) ==
    IF ~infoMap[containerID].present THEN <<>>
    ELSE IF tunnelSyncer /\ infoMap[containerID].tunnelServiceURL # <<>>
    THEN << [op |-> "RemoveRoutes", names |-> infoMap[containerID].cnameDomains] >>
    ELSE RemoveDispatch(infoMap, containerID)

TunnelURL == TunnelLabel :> <<"s", "1">>
TunnelTrue == (TunnelLabel :> <<"true">>) @@ (ServicePortLabel :> <<"8", "0">>)

\* containers with and without the cf_tunnel label, with and without a traefik rule
RoutedContainers ==
    { MkContainer("c1", labels, NetTop) :
        labels \in {NoLabels, RuleT, TunnelURL, RuleT @@ TunnelURL, RuleTX @@ TunnelTrue} }
    \cup
    { MkContainer("c2", labels, NetNone) :
        labels \in {RuleWX, RuleWX @@ TunnelURL, TunnelTrue, TunnelLabel :> <<"true">>} }

updateContainerInfoRouted(container) ==
    \E labelOrder \in Orders(DOMAIN container.Labels),
       netOrder \in Orders(DOMAIN container.Networks),
       inspect \in InspectChoices(container) :
        LET info == WithServiceURL(
                        NewContainerInfo(container, labelOrder, netOrder, inspect, traefikCNAME, traefikA),
                        tunnelServiceURL(container))
        IN /\ containerInfoMap' = StoreEntry(containerInfoMap, container.ID, info)
           /\ resp' = NoResp
           /\ last' = [op |-> "updateContainerInfo", container |-> container, id |-> container.ID,
                       inspect |-> inspect, infoMap |-> containerInfoMap, err |-> FALSE,
                       dispatched |-> UpdateDispatchRouted(info, tunnelServiceURL(container))]
           /\ UNCHANGED <<runVars, traefikCNAME, traefikA, records, nextID, tunnelIngress, tunnelOrigin, tunnelWarp, calls>>

removeContainerInfoRouted(containerID) ==
    /\ containerInfoMap' = RemoveEntry(containerInfoMap, containerID)
    /\ resp' = NoResp
    /\ last' = [op |-> "removeContainerInfo", id |-> containerID, infoMap |-> containerInfoMap,
                err |-> FALSE, dispatched |-> RemoveDispatchRouted(containerInfoMap, containerID)]
    /\ UNCHANGED <<runVars, traefikCNAME, traefikA, records, nextID, tunnelIngress, tunnelOrigin, tunnelWarp, calls>>

\* the plugin with a CloudflareSyncer, with or without a TunnelSyncer
InitRouted ==
    /\ \E cfg \in TraefikConfigs : traefikCNAME = cfg.cname /\ traefikA = cfg.a
    /\ containerInfoMap = [id \in ContainerIDs |-> NoInfo]
    /\ resp = NoResp
    /\ IdleSync
    /\ tunnelSyncer \in BOOLEAN
    /\ mutex = Unlocked
    /\ mu = FALSE
    /\ routines = <<>>
    /\ events = <<>>

NextRouted ==
    \/ \E container \in RoutedContainers : updateContainerInfoRouted(container)
    \/ \E id \in ContainerIDs : removeContainerInfoRouted(id)

SpecRouted == InitRouted /\ [][NextRouted]_vars

----------------------------------------------------------------------------
(* Properties of the registry lookup and the DNS handler (SpecDNS).        *)

Served == resp.qtype # "none"

\* the queried name is a CNAME domain of some registered entry
IsRedirectName(qname) ==
    \E id \in Registered(containerInfoMap) :
        \E i \in 1..Len(containerInfoMap[id].cnameDomains) :
            containerInfoMap[id].cnameDomains[i] \o <<".">> = qname

\* the queried name is a plain domain of some registered entry
IsPlainName(qname) ==
    \E id \in Registered(containerInfoMap) :
        \E i \in 1..Len(containerInfoMap[id].domains) :
            containerInfoMap[id].domains[i] \o <<".">> = qname

\* the reply holds exactly one record of the given type and data, for the queried name
OneRecord(rrtype, data) ==
    /\ resp.written /\ ~resp.next
    /\ Len(resp.Answer) = 1
    /\ resp.Answer[1].Rrtype = rrtype
    /\ resp.Answer[1].Name = resp.qname
    /\ resp.Answer[1].Data = data

\* the handler wrote nothing and passed the query to the next handler
Delegated == resp.next /\ ~resp.written /\ resp.Answer = <<>>

\* the configured CNAME target as a fully qualified name
CnameTargetFqdn ==
    IF traefikCNAME[Len(traefikCNAME)] = "." THEN traefikCNAME ELSE traefikCNAME \o <<".">>

(* C1: a lookup of a name that is a CNAME domain of some entry returns      *)
(* isCNAME = true, also when the name is a plain domain of the same or of  *)
(* another entry, whatever the iteration order.                            *)
C1_RedirectWins ==
    (Served /\ IsRedirectName(resp.qname)) => (resp.result.found /\ resp.result.isCNAME)

(* C2: an A query is answered with one CNAME to the target for a redirect  *)
(* match in CNAME mode, one A record with the configured IP for a redirect *)
(* match in A mode, one A record with the entry's IPv4 address for a plain *)
(* match, and is delegated to the next handler, with no reply written,     *)
(* when nothing matches; the handler never answers NXDOMAIN.               *)
C2_AQuery ==
    (Served /\ resp.qtype = "A") =>
        /\ (resp.result.found /\ resp.result.isCNAME /\ traefikCNAME # <<>>)
               => OneRecord("CNAME", CnameTargetFqdn)
        /\ (resp.result.found /\ resp.result.isCNAME /\ traefikCNAME = <<>> /\ traefikA # NoIP)
               => OneRecord("A", traefikA)
        /\ (resp.result.found /\ ~resp.result.isCNAME)
               => /\ resp.result.containerInfo.address \in ValidIPv4
                  /\ OneRecord("A", resp.result.containerInfo.address)
        /\ ~resp.result.found => Delegated
        /\ resp.Rcode # "NXDOMAIN"

C2_Witness ==
    /\ Served /\ resp.qtype = "A"
    /\ resp.result.found /\ resp.result.isCNAME
    /\ traefikA # NoIP
    /\ resp.written

(* C3: an AAAA query gets the CNAME answer for a redirect match in CNAME   *)
(* mode, no A or AAAA record for a redirect match in A mode, one AAAA      *)
(* record for a plain match with an IPv6 address, and for a plain match    *)
(* with an IPv4 address only an authoritative NOERROR reply with an empty  *)
(* answer section, written by the handler itself without delegation.       *)
C3_AAAAQuery ==
    (Served /\ resp.qtype = "AAAA") =>
        /\ (resp.result.found /\ resp.result.isCNAME /\ traefikCNAME # <<>>)
               => OneRecord("CNAME", CnameTargetFqdn)
        /\ (resp.result.found /\ resp.result.isCNAME /\ traefikCNAME = <<>>)
               => \A i \in 1..Len(resp.Answer) : resp.Answer[i].Rrtype \notin {"A", "AAAA"}
        /\ (resp.result.found /\ ~resp.result.isCNAME /\ resp.result.containerInfo.address6 # NoIP)
               => OneRecord("AAAA", resp.result.containerInfo.address6)
        /\ (resp.result.found /\ ~resp.result.isCNAME /\ resp.result.containerInfo.address6 = NoIP
                /\ resp.result.containerInfo.address # NoIP)
               => /\ resp.written /\ ~resp.next
                  /\ resp.Authoritative
                  /\ resp.Rcode = "NOERROR"
                  /\ resp.Answer = <<>>

C3_Witness ==
    /\ Served /\ resp.qtype = "AAAA"
    /\ resp.result.found /\ ~resp.result.isCNAME
    /\ resp.result.containerInfo.address6 = NoIP
    /\ resp.written /\ resp.Answer = <<>>

(* C4: a CNAME query is answered only for a redirect match with a CNAME    *)
(* target configured; for plain entries, for redirect entries in A mode    *)
(* and for unknown names the handler writes nothing and delegates.         *)
C4_CNAMEQuery ==
    (Served /\ resp.qtype = "CNAME") =>
        IF resp.result.found /\ resp.result.isCNAME /\ traefikCNAME # <<>>
        THEN OneRecord("CNAME", CnameTargetFqdn)
        ELSE Delegated

C4_Witness ==
    /\ Served /\ resp.qtype = "CNAME"
    /\ resp.result.found /\ ~resp.result.isCNAME
    /\ traefikCNAME # <<>>
    /\ Delegated

----------------------------------------------------------------------------
(* The Cloudflare configuration and the provider (the CloudflareAPI the    *)
(* syncers call, with the behaviour of the in-memory API of the tests).    *)

\* CloudflareConfig.Zones, in configuration order
Zones == << [Domain |-> <<"n">>, ZoneID |-> "Z1"],
            [Domain |-> <<"h", ".", "n">>, ZoneID |-> "Z2"] >>

ZoneIDs == {Zones[i].ZoneID : i \in 1..Len(Zones)}

\* findZoneForDomain returns "" when no zone matches
NoZone == ""

\* CloudflareConfig.ExcludeDomains
ExcludeDomains == { <<"e", ".", "h", ".", "n">> }

\* the lookup s.config.ExcludeDomains[domain] both syncers make
ExcludedNever(domain) == FALSE

Excluded(domain) == domain \in ExcludeDomains

\* CloudflareConfig.TargetDomain
TargetDomain == <<"t", ".", "h", ".", "n">>

\* TunnelConfig.TunnelID
TunnelID == <<"u", "1">>

\* the content of a record the provider held before the syncers ran
ForeignContent == <<"o", ".", "n">>

\* a provider call: its name, its arguments and whether it succeeded
Call(api, zoneID, name, id, content, ingress, ok) ==
    [api |-> api, zoneID |-> zoneID, name |-> name, id |-> id, content |-> content,
     ingress |-> ingress, ok |-> ok]

(* The world a syncer call runs in: the provider state and the calls made  *)
(* so far.  fail is the set of positions, in the order of the calls, of    *)
(* the provider calls that return an error.                                *)
Failed(w, fail) == (Len(w.calls) + 1) \in fail

LastOk(w) == w.calls[Len(w.calls)].ok

\* mockCloudflareAPI.ListDNSRecords: the records of the zone with that type and name
ListDNSRecords(w, zoneID, type, name) ==
    SelectSeq(w.records[zoneID], LAMBDA rec : rec.Type = type /\ rec.Name = name)

\* the List call as the syncers see it: logged, and failing when the provider fails
DoList(w, zoneID, name, fail) ==
    [w EXCEPT !.calls = Append(@, Call("ListDNSRecords", zoneID, name, 0, <<>>, <<>>, ~Failed(w, fail)))]

\* mockCloudflareAPI.CreateDNSRecord
CreateDNSRecord(w, zoneID, record, fail) ==
    IF Failed(w, fail)
    THEN [w EXCEPT !.calls = Append(@, Call("CreateDNSRecord", zoneID, record.Name, 0, record.Content, <<>>, FALSE))]
    ELSE [w EXCEPT !.calls = Append(@, Call("CreateDNSRecord", zoneID, record.Name, w.nextID, record.Content, <<>>, TRUE)),
                   !.records[zoneID] = Append(@, [record EXCEPT !.ID = w.nextID]),
                   !.nextID = @ + 1]

\* mockCloudflareAPI.UpdateDNSRecord: an error when no record has the id
UpdateDNSRecord(w, zoneID, recordID, record, fail) ==
    LET recs == w.records[zoneID]
        ok == ~Failed(w, fail) /\ \E i \in 1..Len(recs) : recs[i].ID = recordID
    IN [w EXCEPT !.calls = Append(@, Call("UpdateDNSRecord", zoneID, record.Name, recordID, record.Content, <<>>, ok)),
                 !.records[zoneID] = IF ok
                                     THEN [i \in 1..Len(recs) |->
                                              IF recs[i].ID = recordID THEN [record EXCEPT !.ID = recordID]
                                              ELSE recs[i]]
                                     ELSE @]

\* mockCloudflareAPI.DeleteDNSRecord: an error when no record has the id
DeleteDNSRecord(w, zoneID, recordID, fail) ==
    LET recs == w.records[zoneID]
        ok == ~Failed(w, fail) /\ \E i \in 1..Len(recs) : recs[i].ID = recordID
    IN [w EXCEPT !.calls = Append(@, Call("DeleteDNSRecord", zoneID, <<>>, recordID, <<>>, <<>>, ok)),
                 !.records[zoneID] = IF ok THEN SelectSeq(recs, LAMBDA rec : rec.ID # recordID) ELSE @]

\* mockCloudflareAPI.GetTunnelConfiguration, as the syncer sees it
DoGetTunnelConfiguration(w, fail) ==
    [w EXCEPT !.calls = Append(@, Call("GetTunnelConfiguration", "", <<>>, 0, <<>>, <<>>, ~Failed(w, fail)))]

\* mockCloudflareAPI.UpdateTunnelConfiguration: the pushed list replaces the ingress list
UpdateTunnelConfiguration(w, ingress, fail) ==
    IF Failed(w, fail)
    THEN [w EXCEPT !.calls = Append(@, Call("UpdateTunnelConfiguration", "", <<>>, 0, <<>>, ingress, FALSE))]
    ELSE [w EXCEPT !.calls = Append(@, Call("UpdateTunnelConfiguration", "", <<>>, 0, <<>>, ingress, TRUE)),
                   !.ingress = ingress]

----------------------------------------------------------------------------
(* CloudflareSyncer.                                                       *)

\* the loop of CloudflareSyncer.findZoneForDomain from zone i on
RECURSIVE findZoneFrom(_, _, _, _)
findZoneFrom(domain, i, bestMatch, bestZoneID) ==
    IF i > Len(Zones) THEN bestZoneID
    ELSE LET zone == Zones[i] IN
         IF (domain = zone.Domain \/ HasSuffix(domain, <<".">> \o zone.Domain))
            /\ Len(zone.Domain) > Len(bestMatch)
         THEN findZoneFrom(domain, i + 1, zone.Domain, zone.ZoneID)
         ELSE findZoneFrom(domain, i + 1, bestMatch, bestZoneID)

\* the first configured zone whose letters end the domain
findZoneFirstMatch(domain) ==
    LET matching == {i \in 1..Len(Zones) : HasSuffix(domain, Zones[i].Domain)}
    IN IF matching = {} THEN NoZone
       ELSE Zones[CHOOSE i \in matching : \A j \in matching : i <= j].ZoneID

\* CloudflareSyncer.findZoneForDomain
findZoneForDomain(domain) == findZoneFrom(domain, 1, <<>>, NoZone)

\* the record both syncers write: a CNAME for the name with the given content
CnameRecord(name, content) == [ID |-> 0, Type |-> "CNAME", Name |-> name, Content |-> content]

\* an upsert that writes a second record when the content differs
upsertRecordCreates(w, zoneID, domain, fail) ==
    LET w1 == DoList(w, zoneID, domain, fail)
        existing == ListDNSRecords(w, zoneID, "CNAME", domain)
    IN IF ~LastOk(w1) THEN w1
       ELSE IF Len(existing) > 0 /\ existing[1].Content = TargetDomain THEN w1
       ELSE CreateDNSRecord(w1, zoneID, CnameRecord(domain, TargetDomain), fail)

\* CloudflareSyncer.upsertRecord
upsertRecord(w, zoneID, domain, fail) ==
    LET w1 == DoList(w, zoneID, domain, fail)
        existing == ListDNSRecords(w, zoneID, "CNAME", domain)
    IN IF ~LastOk(w1) THEN w1
       ELSE IF Len(existing) > 0
       THEN IF existing[1].Content = TargetDomain THEN w1
            ELSE UpdateDNSRecord(w1, zoneID, existing[1].ID, CnameRecord(domain, TargetDomain), fail)
       ELSE CreateDNSRecord(w1, zoneID, CnameRecord(domain, TargetDomain), fail)

\* the delete loop of deleteRecord / deleteTunnelDNS; deleteRecord returns at the first error
RECURSIVE DeleteEach(_, _, _, _, _)
DeleteEach(w, zoneID, existing, fail, returnOnError) ==
    IF existing = <<>> THEN w
    ELSE LET w1 == DeleteDNSRecord(w, zoneID, Head(existing).ID, fail)
         IN IF ~LastOk(w1) /\ returnOnError THEN w1
            ELSE DeleteEach(w1, zoneID, Tail(existing), fail, returnOnError)

\* a delete that stops after the first record of the name
deleteFirstRecord(w, zoneID, domain, fail) ==
    LET w1 == DoList(w, zoneID, domain, fail)
        existing == ListDNSRecords(w, zoneID, "CNAME", domain)
    IN IF ~LastOk(w1) \/ existing = <<>> THEN w1 ELSE DeleteEach(w1, zoneID, <<existing[1]>>, fail, TRUE)

\* CloudflareSyncer.deleteRecord
deleteRecord(w, zoneID, domain, fail) ==
    LET w1 == DoList(w, zoneID, domain, fail)
        existing == ListDNSRecords(w, zoneID, "CNAME", domain)
    IN IF ~LastOk(w1) THEN w1 ELSE DeleteEach(w1, zoneID, existing, fail, TRUE)

\* a SyncDomains that gives up the batch at the first provider error
RECURSIVE RunSyncDomainsAborts(_, _, _)
RunSyncDomainsAborts(w, domains, fail) ==
    IF domains = <<>> THEN w
    ELSE LET domain == Head(domains) IN
         IF Excluded(domain) \/ findZoneForDomain(domain) = NoZone
         THEN RunSyncDomainsAborts(w, Tail(domains), fail)
         ELSE LET w1 == upsertRecord(w, findZoneForDomain(domain), domain, fail)
              IN IF ~LastOk(w1) THEN w1 ELSE RunSyncDomainsAborts(w1, Tail(domains), fail)

\* the loop of CloudflareSyncer.SyncDomains
RECURSIVE RunSyncDomains(_, _, _)
RunSyncDomains(w, domains, fail) ==
    IF domains = <<>> THEN w
    ELSE LET domain == Head(domains) IN
         IF Excluded(domain) THEN RunSyncDomains(w, Tail(domains), fail)
         ELSE IF findZoneForDomain(domain) = NoZone THEN RunSyncDomains(w, Tail(domains), fail)
         ELSE RunSyncDomains(upsertRecord(w, findZoneForDomain(domain), domain, fail), Tail(domains), fail)

\* the loop of CloudflareSyncer.RemoveDomains
RECURSIVE RunRemoveDomains(_, _, _)
RunRemoveDomains(w, domains, fail) ==
    IF domains = <<>> THEN w
    ELSE LET domain == Head(domains) IN
         IF Excluded(domain) THEN RunRemoveDomains(w, Tail(domains), fail)
         ELSE IF findZoneForDomain(domain) = NoZone THEN RunRemoveDomains(w, Tail(domains), fail)
         ELSE RunRemoveDomains(deleteRecord(w, findZoneForDomain(domain), domain, fail), Tail(domains), fail)

----------------------------------------------------------------------------
(* TunnelSyncer.                                                           *)

\* the catch-all rule AddRoutes synthesizes for an empty ingress list
CatchAll == [Hostname |-> <<>>, Service |-> "http_status:404"]

\* the suffix test of TunnelSyncer.findZoneForDomain, written with indices
TunnelZoneMatches(domain, zoneDomain) ==
    \/ domain = zoneDomain
    \/ /\ Len(domain) > Len(zoneDomain)
       /\ domain[Len(domain) - Len(zoneDomain)] = "."
       /\ SubSeq(domain, Len(domain) - Len(zoneDomain) + 1, Len(domain)) = zoneDomain

RECURSIVE tunnelFindZoneFrom(_, _, _, _)
tunnelFindZoneFrom(domain, i, bestMatch, bestZoneID) ==
    IF i > Len(Zones) THEN bestZoneID
    ELSE LET zone == Zones[i] IN
         IF TunnelZoneMatches(domain, zone.Domain) /\ Len(zone.Domain) > Len(bestMatch)
         THEN tunnelFindZoneFrom(domain, i + 1, zone.Domain, zone.ZoneID)
         ELSE tunnelFindZoneFrom(domain, i + 1, bestMatch, bestZoneID)

\* TunnelSyncer.findZoneForDomain
tunnelFindZoneForDomain(domain) == tunnelFindZoneFrom(domain, 1, <<>>, NoZone)

\* fmt.Sprintf("%s.cfargotunnel.com", s.tunnel.TunnelID)
cnameTarget == TunnelID \o <<".", "cfargotunnel", ".", "com">>

\* TunnelSyncer.upsertTunnelDNS
upsertTunnelDNS(w, hostname, target, fail) ==
    LET zoneID == tunnelFindZoneForDomain(hostname) IN
    IF zoneID = NoZone THEN w
    ELSE LET w1 == DoList(w, zoneID, hostname, fail)
             existing == ListDNSRecords(w, zoneID, "CNAME", hostname)
         IN IF ~LastOk(w1) THEN w1
            ELSE IF Len(existing) > 0
            THEN IF existing[1].Content = target THEN w1
                 ELSE UpdateDNSRecord(w1, zoneID, existing[1].ID, CnameRecord(hostname, target), fail)
            ELSE CreateDNSRecord(w1, zoneID, CnameRecord(hostname, target), fail)

\* a deleteTunnelDNS that leaves the records
deleteTunnelDNSNone(w, hostname, fail) == w

\* TunnelSyncer.deleteTunnelDNS: a failed delete is logged and the loop goes on
deleteTunnelDNS(w, hostname, fail) ==
    LET zoneID == tunnelFindZoneForDomain(hostname) IN
    IF zoneID = NoZone THEN w
    ELSE LET w1 == DoList(w, zoneID, hostname, fail)
             existing == ListDNSRecords(w, zoneID, "CNAME", hostname)
         IN IF ~LastOk(w1) THEN w1 ELSE DeleteEach(w1, zoneID, existing, fail, FALSE)

\* index of the first rule with the hostname, 0 if none
RECURSIVE FirstRule(_, _, _)
FirstRule(ingress, hostname, i) ==
    IF i > Len(ingress) THEN 0
    ELSE IF ingress[i].Hostname = hostname THEN i
    ELSE FirstRule(ingress, hostname, i + 1)

\* a search that never finds the rule
findRuleNone(ingress, hostname) == 0

\* the inner loop of AddRoutes: the first rule with the hostname
findRule(ingress, hostname) == FirstRule(ingress, hostname, 1)

\* an insertion that adds no catch-all to an empty list
InsertWithoutCatchAll(ingress, newRule) ==
    IF Len(ingress) > 0
    THEN SubSeq(ingress, 1, Len(ingress) - 1) \o <<newRule, ingress[Len(ingress)]>>
    ELSE <<newRule>>

\* an insertion after the last rule
InsertAtEnd(ingress, newRule) == Append(ingress, newRule)

\* the insertion of AddRoutes: before the last rule, or with a new catch-all
InsertBeforeLast(ingress, newRule) ==
    IF Len(ingress) > 0
    THEN SubSeq(ingress, 1, Len(ingress) - 1) \o <<newRule, ingress[Len(ingress)]>>
    ELSE <<newRule, CatchAll>>

\* one round of the first loop of AddRoutes: st = [ingress, modified]
AddRoute(st, hostname, serviceURL) ==
    IF Excluded(hostname) THEN st
    ELSE LET ingress == st.ingress
             i == findRule(ingress, hostname)
         IN IF i # 0
            THEN IF ingress[i].Service = serviceURL THEN st
                 ELSE [ingress |-> [ingress EXCEPT ![i].Service = serviceURL], modified |-> TRUE]
            ELSE [ingress |-> InsertBeforeLast(ingress, [Hostname |-> hostname, Service |-> serviceURL]),
                  modified |-> TRUE]

\* the first loop of AddRoutes
RECURSIVE AddRouteEach(_, _, _)
AddRouteEach(st, hostnames, serviceURL) ==
    IF hostnames = <<>> THEN st
    ELSE AddRouteEach(AddRoute(st, Head(hostnames), serviceURL), Tail(hostnames), serviceURL)

\* the second loop of AddRoutes
RECURSIVE UpsertEach(_, _, _)
UpsertEach(w, hostnames, fail) ==
    IF hostnames = <<>> THEN w
    ELSE IF Excluded(Head(hostnames)) THEN UpsertEach(w, Tail(hostnames), fail)
    ELSE UpsertEach(upsertTunnelDNS(w, Head(hostnames), cnameTarget, fail), Tail(hostnames), fail)

\* an AddRoutes that writes the records only after it pushed the list
RunAddRoutesGated(w, hostnames, serviceURL, fail) ==
    LET w1 == DoGetTunnelConfiguration(w, fail) IN
    IF ~LastOk(w1) THEN w1
    ELSE LET st == AddRouteEach([ingress |-> w.ingress, modified |-> FALSE], hostnames, serviceURL)
         IN IF ~st.modified THEN w1
            ELSE LET w2 == UpdateTunnelConfiguration(w1, st.ingress, fail)
                 IN IF ~LastOk(w2) THEN w2 ELSE UpsertEach(w2, hostnames, fail)

\* an AddRoutes that pushes the list whether or not it changed
RunAddRoutesAlwaysPuts(w, hostnames, serviceURL, fail) ==
    LET w1 == DoGetTunnelConfiguration(w, fail) IN
    IF ~LastOk(w1) THEN w1
    ELSE LET st == AddRouteEach([ingress |-> w.ingress, modified |-> FALSE], hostnames, serviceURL)
             w2 == UpdateTunnelConfiguration(w1, st.ingress, fail)
         IN IF ~LastOk(w2) THEN w2 ELSE UpsertEach(w2, hostnames, fail)

\* TunnelSyncer.AddRoutes, under s.mu
RunAddRoutes(w, hostnames, serviceURL, fail) ==
    LET w1 == DoGetTunnelConfiguration(w, fail) IN
    IF ~LastOk(w1) THEN w1
    ELSE LET st == AddRouteEach([ingress |-> w.ingress, modified |-> FALSE], hostnames, serviceURL)
             w2 == IF st.modified THEN UpdateTunnelConfiguration(w1, st.ingress, fail) ELSE w1
         IN IF st.modified /\ ~LastOk(w2) THEN w2
            ELSE UpsertEach(w2, hostnames, fail)

\* the last loop of RemoveRoutes
RECURSIVE DeleteDNSEach(_, _, _)
DeleteDNSEach(w, hostnames, fail) ==
    IF hostnames = <<>> THEN w
    ELSE IF Excluded(Head(hostnames)) THEN DeleteDNSEach(w, Tail(hostnames), fail)
    ELSE DeleteDNSEach(deleteTunnelDNS(w, Head(hostnames), fail), Tail(hostnames), fail)

\* TunnelSyncer.RemoveRoutes, under s.mu
RunRemoveRoutes(w, hostnames, fail) ==
    LET w1 == DoGetTunnelConfiguration(w, fail) IN
    IF ~LastOk(w1) THEN w1
    ELSE LET removeSet == {hostnames[i] : i \in {j \in 1..Len(hostnames) : ~Excluded(hostnames[j])}}
             filtered == SelectSeq(w.ingress, LAMBDA rule : rule.Hostname \notin removeSet)
             modified == \E i \in 1..Len(w.ingress) : w.ingress[i].Hostname \in removeSet
             w2 == IF modified THEN UpdateTunnelConfiguration(w1, filtered, fail) ELSE w1
         IN IF modified /\ ~LastOk(w2) THEN w2
            ELSE DeleteDNSEach(w2, hostnames, fail)

----------------------------------------------------------------------------
(* The syncer calls as actions on the provider, one call at a time.        *)

\* the names the registry hands to the CloudflareSyncer: the apex of a zone,
\* a name that ends in a zone's letters but not on a label boundary, an
\* excluded name and a name outside every zone
SyncNames == { <<"h", ".", "n">>, <<"x", "h", ".", "n">>, <<"e", ".", "h", ".", "n">>, <<"u", ".", "o">> }

\* the hostnames the registry hands to the TunnelSyncer
TunnelNames == { <<"h", ".", "n">>, <<"e", ".", "h", ".", "n">>, <<"u", ".", "o">> }

\* the names handed to both syncers when they run against the same provider
SharedNames == { <<"h", ".", "n">>, <<"e", ".", "h", ".", "n">> }

\* the longest list of names in one call
MaxNames == 2

NameLists(names) == UNION {[1..n -> names] : n \in 0..MaxNames}

\* the tunnel service URLs of the containers
ServiceURLs == {"http://s1", "http://s2"}

\* the largest record id the provider hands out in a run
MaxRecordID == 5

World == [records |-> records, nextID |-> nextID, ingress |-> tunnelIngress, calls |-> <<>>]

Started(op, names, serviceURL, fail) ==
    [op |-> op, names |-> names, serviceURL |-> serviceURL, fail |-> fail,
     records |-> records, tunnelIngress |-> tunnelIngress]

Finish(w, op, names, serviceURL, fail) ==
    /\ w.nextID <= MaxRecordID + 1
    /\ records' = w.records
    /\ nextID' = w.nextID
    /\ tunnelIngress' = w.ingress
    /\ UNCHANGED <<tunnelOrigin, tunnelWarp>>
    /\ calls' = w.calls
    /\ last' = Started(op, names, serviceURL, fail)

SyncDomains(domains, fail) ==
    Finish(RunSyncDomains(World, domains, fail), "SyncDomains", domains, "", fail)

RemoveDomains(domains, fail) ==
    Finish(RunRemoveDomains(World, domains, fail), "RemoveDomains", domains, "", fail)

AddRoutes(hostnames, serviceURL, fail) ==
    Finish(RunAddRoutes(World, hostnames, serviceURL, fail), "AddRoutes", hostnames, serviceURL, fail)

RemoveRoutes(hostnames, fail) ==
    Finish(RunRemoveRoutes(World, hostnames, fail), "RemoveRoutes", hostnames, "", fail)

(* The provider is shared with other writers: when the syncers start it    *)
(* may already hold records and ingress rules, also for excluded names,    *)
(* and more than one record for a name.                                    *)
NoRecords == [z \in ZoneIDs |-> <<>>]

ForeignRecords ==
    [z \in ZoneIDs |-> IF z = "Z2"
                       THEN << [ID |-> 1, Type |-> "CNAME", Name |-> <<"h", ".", "n">>, Content |-> ForeignContent],
                               [ID |-> 2, Type |-> "CNAME", Name |-> <<"e", ".", "h", ".", "n">>, Content |-> ForeignContent] >>
                       ELSE << [ID |-> 3, Type |-> "A", Name |-> <<"x", "h", ".", "n">>, Content |-> ForeignContent] >>]

DuplicateRecords ==
    [z \in ZoneIDs |-> IF z = "Z2"
                       THEN << [ID |-> 1, Type |-> "CNAME", Name |-> <<"h", ".", "n">>, Content |-> ForeignContent],
                               [ID |-> 2, Type |-> "CNAME", Name |-> <<"h", ".", "n">>, Content |-> TargetDomain] >>
                       ELSE <<>>]

InitialRecords == {NoRecords, ForeignRecords, DuplicateRecords}

SeededIngress ==
    << [Hostname |-> <<"e", ".", "h", ".", "n">>, Service |-> "http://s1"],
       [Hostname |-> <<"h", ".", "n">>, Service |-> "http://s2"],
       CatchAll >>

\* two rules for one hostname, as another writer of the tunnel can leave them
DuplicateIngress ==
    << [Hostname |-> <<"h", ".", "n">>, Service |-> "http://s1"],
       [Hostname |-> <<"h", ".", "n">>, Service |-> "http://s2"],
       CatchAll >>

InitialIngress ==
    { <<>>,
      << CatchAll >>,
      SeededIngress,
      DuplicateIngress,
      << [Hostname |-> <<"h", ".", "n">>, Service |-> "http://s1"] >> }

\* the provider has handed out the ids of the records it holds
FirstFreeID ==
    1 + Cardinality(UNION {{recs[z][i].ID : i \in 1..Len(recs[z])} : recs \in InitialRecords, z \in ZoneIDs})

IdleDNS ==
    /\ traefikCNAME = <<>>
    /\ traefikA = NoIP
    /\ containerInfoMap = [id \in ContainerIDs |-> NoInfo]
    /\ resp = NoResp
    /\ IdleRun

InitProvider(initialRecords, initialIngress) ==
    /\ IdleDNS
    /\ records \in initialRecords
    /\ nextID = FirstFreeID
    /\ tunnelIngress \in initialIngress
    /\ tunnelOrigin = NoOrigin
    /\ tunnelWarp = NoWarp
    /\ calls = <<>>
    /\ last = [op |-> "none"]

\* the CloudflareSyncer alone
InitSync == InitProvider(InitialRecords, {<<>>})

NextSync ==
    \/ \E domains \in NameLists(SyncNames) : SyncDomains(domains, {}) /\ UNCHANGED dnsVars
    \/ \E domains \in NameLists(SyncNames) : RemoveDomains(domains, {}) /\ UNCHANGED dnsVars

SpecSync == InitSync /\ [][NextSync]_vars

\* the CloudflareSyncer against a provider whose calls may fail: fail is the
\* set of positions, among the provider calls of one syncer call, that
\* return an error
MaxFailAt == 4

\* at most two provider calls of one syncer call fail
FailSets == {fail \in SUBSET (1..MaxFailAt) : Cardinality(fail) <= 2}

\* the batches handed to the syncer: one or two names that have a zone
FailingBatches == UNION {[1..n -> {<<"h", ".", "n">>, <<"x", "h", ".", "n">>}] : n \in 1..2}

NextSyncFailing ==
    \/ \E domains \in FailingBatches, fail \in FailSets :
           SyncDomains(domains, fail) /\ UNCHANGED dnsVars
    \/ \E domains \in FailingBatches, fail \in FailSets :
           RemoveDomains(domains, fail) /\ UNCHANGED dnsVars

SpecSyncFailing == InitSync /\ [][NextSyncFailing]_vars

\* the TunnelSyncer alone
InitTunnel == InitProvider({NoRecords, ForeignRecords}, InitialIngress)

NextTunnel ==
    \/ \E hostnames \in NameLists(TunnelNames), serviceURL \in ServiceURLs :
           AddRoutes(hostnames, serviceURL, {}) /\ UNCHANGED dnsVars
    \/ \E hostnames \in NameLists(TunnelNames) : RemoveRoutes(hostnames, {}) /\ UNCHANGED dnsVars

SpecTunnel == InitTunnel /\ [][NextTunnel]_vars

\* the TunnelSyncer on a tunnel whose list is empty or ends in its one catch-all
InitTunnelSeeded ==
    InitProvider({NoRecords, ForeignRecords}, {<<>>, <<CatchAll>>, SeededIngress, DuplicateIngress})

SpecTunnelSeeded == InitTunnelSeeded /\ [][NextTunnel]_vars

\* the hostnames of the calls when the registry holds an empty name
EmptyNames == { <<>>, <<"h", ".", "n">> }

\* the TunnelSyncer called with names that may be empty
InitTunnelEmptyName == InitProvider({NoRecords}, {<<CatchAll>>, SeededIngress})

NextTunnelEmptyName ==
    \/ \E hostnames \in NameLists(EmptyNames), serviceURL \in ServiceURLs :
           AddRoutes(hostnames, serviceURL, {}) /\ UNCHANGED dnsVars
    \/ \E hostnames \in NameLists(EmptyNames) : RemoveRoutes(hostnames, {}) /\ UNCHANGED dnsVars

SpecTunnelEmptyName == InitTunnelEmptyName /\ [][NextTunnelEmptyName]_vars

(* The source holds a second revision of the TunnelSyncer that manages the *)
(* ingress list only: its AddRoutes and RemoveRoutes end after the push.   *)

\* an AddRoutes of this revision that goes on to write the records
RunAddRoutesThenRecords(w, hostnames, serviceURL, fail) == RunAddRoutes(w, hostnames, serviceURL, fail)

\* TunnelSyncer.AddRoutes of the ingress-only revision, under s.mu
RunAddRoutesIngressOnly(w, hostnames, serviceURL, fail) ==
    LET w1 == DoGetTunnelConfiguration(w, fail) IN
    IF ~LastOk(w1) THEN w1
    ELSE LET st == AddRouteEach([ingress |-> w.ingress, modified |-> FALSE], hostnames, serviceURL)
         IN IF st.modified THEN UpdateTunnelConfiguration(w1, st.ingress, fail) ELSE w1

\* TunnelSyncer.RemoveRoutes of the ingress-only revision, under s.mu
RunRemoveRoutesIngressOnly(w, hostnames, fail) ==
    LET w1 == DoGetTunnelConfiguration(w, fail) IN
    IF ~LastOk(w1) THEN w1
    ELSE LET removeSet == {hostnames[i] : i \in {j \in 1..Len(hostnames) : ~Excluded(hostnames[j])}}
             filtered == SelectSeq(w.ingress, LAMBDA rule : rule.Hostname \notin removeSet)
             modified == \E i \in 1..Len(w.ingress) : w.ingress[i].Hostname \in removeSet
         IN IF modified THEN UpdateTunnelConfiguration(w1, filtered, fail) ELSE w1

AddRoutesIngressOnly(hostnames, serviceURL, fail) ==
    Finish(RunAddRoutesIngressOnly(World, hostnames, serviceURL, fail), "AddRoutes", hostnames, serviceURL, fail)

RemoveRoutesIngressOnly(hostnames, fail) ==
    Finish(RunRemoveRoutesIngressOnly(World, hostnames, fail), "RemoveRoutes", hostnames, "", fail)

NextTunnelIngressOnly ==
    \/ \E hostnames \in NameLists(TunnelNames), serviceURL \in ServiceURLs :
           AddRoutesIngressOnly(hostnames, serviceURL, {}) /\ UNCHANGED dnsVars
    \/ \E hostnames \in NameLists(TunnelNames) :
           RemoveRoutesIngressOnly(hostnames, {}) /\ UNCHANGED dnsVars

SpecTunnelIngressOnly == InitTunnel /\ [][NextTunnelIngressOnly]_vars

\* both syncers against the same provider
InitSyncers == InitProvider({NoRecords, ForeignRecords}, {<<CatchAll>>, SeededIngress})

NextSyncers ==
    \/ \E domains \in NameLists(SharedNames) : SyncDomains(domains, {}) /\ UNCHANGED dnsVars
    \/ \E domains \in NameLists(SharedNames) : RemoveDomains(domains, {}) /\ UNCHANGED dnsVars
    \/ \E hostnames \in NameLists(SharedNames), serviceURL \in ServiceURLs :
           AddRoutes(hostnames, serviceURL, {}) /\ UNCHANGED dnsVars
    \/ \E hostnames \in NameLists(SharedNames) : RemoveRoutes(hostnames, {}) /\ UNCHANGED dnsVars

SpecSyncers == InitSyncers /\ [][NextSyncers]_vars

----------------------------------------------------------------------------
(* createPlugin: the directives of the configuration block are applied in  *)
(* order to a new DockerDiscovery, then the Cloudflare syncer is set up.   *)
(* Only the directives that touch the traefik targets or the Cloudflare    *)
(* configuration are modelled; the resolver directives change neither.     *)

\* NewDockerDiscovery, with the fields createPlugin sets
NewDockerDiscovery ==
    [traefikCNAME |-> <<>>, traefikA |-> NoIP, traefikResolver |-> FALSE,
     cloudflareConfig |-> FALSE, APIToken |-> "", TargetDomain |-> <<>>, Zones |-> 0,
     cloudflareSyncer |-> FALSE, err |-> ""]

\* a directive and its argument: given is false when the line has no
\* argument, and the argument is a sequence (a name, or one literal)
Directive(name, given, arg) == [name |-> name, given |-> given, arg |-> arg]

Directives ==
    { Directive("traefik_cname", TRUE, <<"i", ".", "d">>),
      Directive("traefik_cname", TRUE, <<>>),
      Directive("traefik_a", TRUE, <<"9.9.9.9">>),
      Directive("traefik_a", TRUE, <<"bogus">>),
      Directive("traefik_a", FALSE, <<>>),
      Directive("cf_token", TRUE, <<"k">>),
      Directive("cf_target", TRUE, TargetDomain),
      Directive("cf_zone", TRUE, <<"Z2">>),
      Directive("bogus", FALSE, <<>>) }

\* the longest configuration block
MaxDirectives == 4

DirectiveLists == UNION {[1..n -> Directives] : n \in 0..MaxDirectives}

\* the switch of createPlugin without the tests for the other traefik target
ApplyDirectiveUnchecked(dd, directive) ==
    CASE directive.name = "traefik_cname" ->
            IF ~directive.given \/ directive.arg = <<>> THEN dd
            ELSE [dd EXCEPT !.traefikCNAME = directive.arg, !.traefikResolver = TRUE]
      [] directive.name = "traefik_a" ->
            IF ~directive.given THEN [dd EXCEPT !.err = "ArgErr"]
            ELSE IF ParseIP(directive.arg[1]) = NoIP THEN [dd EXCEPT !.err = "invalid IP address"]
            ELSE [dd EXCEPT !.traefikA = ParseIP(directive.arg[1]), !.traefikResolver = TRUE]
      [] directive.name = "cf_token" -> [dd EXCEPT !.cloudflareConfig = TRUE, !.APIToken = directive.arg[1]]
      [] directive.name = "cf_target" -> [dd EXCEPT !.cloudflareConfig = TRUE, !.TargetDomain = directive.arg]
      [] directive.name = "cf_zone" -> [dd EXCEPT !.cloudflareConfig = TRUE, !.Zones = @ + 1]
      [] OTHER -> [dd EXCEPT !.err = "unknown property"]

\* one case of the switch of createPlugin
ApplyDirective(dd, directive) ==
    CASE directive.name = "traefik_cname" ->
            IF ~directive.given \/ directive.arg = <<>> THEN dd
            ELSE IF dd.traefikA # NoIP THEN [dd EXCEPT !.err = "mutually exclusive"]
            ELSE [dd EXCEPT !.traefikCNAME = directive.arg, !.traefikResolver = TRUE]
      [] directive.name = "traefik_a" ->
            IF ~directive.given THEN [dd EXCEPT !.err = "ArgErr"]
            ELSE IF dd.traefikCNAME # <<>> THEN [dd EXCEPT !.err = "mutually exclusive"]
            ELSE IF ParseIP(directive.arg[1]) = NoIP THEN [dd EXCEPT !.err = "invalid IP address"]
            ELSE [dd EXCEPT !.traefikA = ParseIP(directive.arg[1]), !.traefikResolver = TRUE]
      [] directive.name = "cf_token" -> [dd EXCEPT !.cloudflareConfig = TRUE, !.APIToken = directive.arg[1]]
      [] directive.name = "cf_target" -> [dd EXCEPT !.cloudflareConfig = TRUE, !.TargetDomain = directive.arg]
      [] directive.name = "cf_zone" -> [dd EXCEPT !.cloudflareConfig = TRUE, !.Zones = @ + 1]
      [] OTHER -> [dd EXCEPT !.err = "unknown property"]

\* the loop over the block: it returns at the first error
RECURSIVE ApplyDirectives(_, _)
ApplyDirectives(dd, directives) ==
    IF directives = <<>> \/ dd.err # "" THEN dd
    ELSE ApplyDirectives(ApplyDirective(dd, Head(directives)), Tail(directives))

\* the Cloudflare initialization after the loop
InitCloudflare(dd) ==
    IF dd.err # "" \/ ~dd.cloudflareConfig THEN dd
    ELSE LET hasCredentials == dd.APIToken # ""
             hasTarget == dd.TargetDomain # <<>>
             hasZones == dd.Zones > 0
         IN IF hasCredentials /\ hasTarget /\ hasZones
            THEN [dd EXCEPT !.traefikCNAME = IF dd.traefikResolver THEN @ ELSE dd.TargetDomain,
                            !.traefikResolver = TRUE,
                            !.cloudflareSyncer = TRUE]
            ELSE IF hasCredentials \/ hasTarget \/ hasZones
            THEN [dd EXCEPT !.err = "incomplete configuration"]
            ELSE dd

\* createPlugin, which setup calls once: the DockerDiscovery it returns, with its error
createPlugin(directives) ==
    LET dd == InitCloudflare(ApplyDirectives(NewDockerDiscovery, directives))
    IN /\ last.op = "none"
       /\ traefikCNAME' = dd.traefikCNAME
       /\ traefikA' = dd.traefikA
       /\ containerInfoMap' = [id \in ContainerIDs |-> NoInfo]
       /\ resp' = NoResp
       /\ last' = [op |-> "createPlugin", directives |-> directives, err |-> dd.err,
                   traefikResolver |-> dd.traefikResolver, cloudflareSyncer |-> dd.cloudflareSyncer]
       /\ UNCHANGED <<runVars, records, nextID, tunnelIngress, tunnelOrigin, tunnelWarp, calls>>

InitConfig == IdleDNS /\ IdleSync

NextConfig == \E directives \in DirectiveLists : createPlugin(directives)

SpecConfig == InitConfig /\ [][NextConfig]_vars

----------------------------------------------------------------------------
(* Properties of the syncers.  last holds the call that ran last, with the *)
(* records and the ingress list the provider held when it started.         *)

Did(op) == last.op = op

\* the zone of a name, stated without the loop: the longest configured
\* suffix that is the name or ends it after a dot
MatchingZones(domain) ==
    {i \in 1..Len(Zones) : domain = Zones[i].Domain \/ HasSuffix(domain, <<".">> \o Zones[i].Domain)}

LongestZone(domain) ==
    IF MatchingZones(domain) = {} THEN NoZone
    ELSE Zones[CHOOSE i \in MatchingZones(domain) :
                  \A j \in MatchingZones(domain) : Len(Zones[j].Domain) <= Len(Zones[i].Domain)].ZoneID

Routable(name) == name \notin ExcludeDomains /\ LongestZone(name) # NoZone

RecordsOf(recs) == UNION {Range(recs[z]) : z \in ZoneIDs}

Cnames(recs, name) == {r \in RecordsOf(recs) : r.Type = "CNAME" /\ r.Name = name}

CallsOf(log, apis) == {k \in 1..Len(log) : log[k].api \in apis}

CallsFor(log, apis, name) == {k \in CallsOf(log, apis) : log[k].name = name}

RecordWrites == {"CreateDNSRecord", "UpdateDNSRecord"}

NamedCalls == {"ListDNSRecords", "CreateDNSRecord", "UpdateDNSRecord"}

AtMostOneCname(recs) == \A name \in SyncNames : Cardinality(Cnames(recs, name)) <= 1

(* C5: SyncDomains against a provider with at most one CNAME record per    *)
(* name leaves every non-excluded, zone-routable name of the call with     *)
(* exactly one CNAME record whose content is the target: created when it   *)
(* was absent, untouched (no Create or Update call) when the content was   *)
(* already the target, updated under the same record id when it differed;  *)
(* and a second SyncDomains with the same names changes nothing.           *)
C5_SyncUpserts ==
    (Did("SyncDomains") /\ AtMostOneCname(last.records)) =>
        /\ \A name \in Range(last.names) :
              Routable(name) =>
                  LET before == Cnames(last.records, name)
                      after == Cnames(records, name)
                      creates == Cardinality(CallsFor(calls, {"CreateDNSRecord"}, name))
                      updates == Cardinality(CallsFor(calls, {"UpdateDNSRecord"}, name))
                  IN /\ Cardinality(after) = 1
                     /\ \A r \in after : r.Content = TargetDomain
                     /\ before = {} => (creates = 1 /\ updates = 0)
                     /\ \A r \in before :
                           /\ r.Content = TargetDomain => (after = before /\ creates = 0 /\ updates = 0)
                           /\ r.Content # TargetDomain =>
                                 /\ {a.ID : a \in after} = {r.ID}
                                 /\ creates = 0 /\ updates = 1
        /\ LET again == RunSyncDomains(World, last.names, {})
           IN /\ again.records = records
              /\ again.nextID = nextID
              /\ CallsOf(again.calls, RecordWrites) = {}

C5_Witness ==
    /\ Did("SyncDomains")
    /\ AtMostOneCname(last.records)
    /\ \E k \in CallsOf(calls, {"UpdateDNSRecord"}) : calls[k].ok
    /\ \E k \in CallsOf(calls, {"CreateDNSRecord"}) : calls[k].ok

\* names around the zones: below a zone, a zone itself, a zone's letters
\* without the dot, the empty name
ProbeDomains ==
    SyncNames \cup { <<"a", ".", "h", ".", "n">>, <<"n">>, <<"h", "n">>, <<"x", "h", ".", "n", ".">>,
                     <<".", "n">>, <<>> }

(* C6: findZoneForDomain (of both syncers) returns the zone id of the      *)
(* longest configured suffix that equals the name or ends it on a label    *)
(* boundary, and no zone when there is none; every record call of          *)
(* SyncDomains and RemoveDomains goes to that zone, and a name without a   *)
(* zone causes no provider call.                                           *)
C6_ZoneRouting ==
    /\ \A d \in ProbeDomains :
          /\ findZoneForDomain(d) = LongestZone(d)
          /\ tunnelFindZoneForDomain(d) = LongestZone(d)
    /\ \A k \in CallsOf(calls, NamedCalls) : calls[k].zoneID = LongestZone(calls[k].name)
    /\ (Did("SyncDomains") \/ Did("RemoveDomains")) =>
          /\ \A name \in Range(last.names) :
                /\ LongestZone(name) = NoZone => CallsFor(calls, NamedCalls, name) = {}
                /\ Routable(name) => CallsFor(calls, {"ListDNSRecords"}, name) # {}
          /\ (\A name \in Range(last.names) : ~Routable(name)) => calls = <<>>

C6_Witness ==
    /\ Did("SyncDomains")
    /\ last.names = << <<"u", ".", "o">>, <<"h", ".", "n">> >>
    /\ Len(calls) = 2
    /\ \A k \in 1..Len(calls) : calls[k].zoneID = "Z2" /\ calls[k].name = <<"h", ".", "n">>

ExcludedRules(ingress) == SelectSeq(ingress, LAMBDA rule : rule.Hostname \in ExcludeDomains)

ExcludedRecords(recs) ==
    [z \in ZoneIDs |-> SelectSeq(recs[z], LAMBDA r : r.Name \in ExcludeDomains)]

(* C7: in every sequence of SyncDomains, RemoveDomains, AddRoutes and      *)
(* RemoveRoutes calls no excluded name is the name of a List, Create or    *)
(* Update call, no Delete call removes a record of an excluded name, and   *)
(* the ingress rules of excluded hostnames are the same, in every list the *)
(* syncers push and in the provider afterwards, as before the call.        *)
C7_ExcludedUntouched ==
    /\ \A k \in 1..Len(calls) : calls[k].name \notin ExcludeDomains
    /\ \A k \in CallsOf(calls, {"DeleteDNSRecord"}) :
          \A r \in RecordsOf(last.records) : r.ID = calls[k].id => r.Name \notin ExcludeDomains
    /\ \A k \in CallsOf(calls, {"UpdateTunnelConfiguration"}) :
          ExcludedRules(calls[k].ingress) = ExcludedRules(last.tunnelIngress)
    /\ last.op # "none" =>
          /\ ExcludedRules(tunnelIngress) = ExcludedRules(last.tunnelIngress)
          /\ ExcludedRecords(records) = ExcludedRecords(last.records)

C7_Witness ==
    /\ Did("RemoveRoutes")
    /\ last.names = << <<"e", ".", "h", ".", "n">>, <<"h", ".", "n">> >>
    /\ last.tunnelIngress = SeededIngress
    /\ Cnames(last.records, <<"e", ".", "h", ".", "n">>) # {}
    /\ CallsOf(calls, {"UpdateTunnelConfiguration"}) # {}
    /\ CallsOf(calls, {"DeleteDNSRecord"}) # {}

\* the records RemoveDomains is to delete: the CNAME records, in the zone
\* the name routes to, of the non-excluded names of the call
Doomed(recs, names) ==
    UNION {{r \in Range(recs[z]) : /\ r.Type = "CNAME"
                                   /\ r.Name \in Range(names)
                                   /\ Routable(r.Name)
                                   /\ LongestZone(r.Name) = z} : z \in ZoneIDs}

(* C8: RemoveDomains deletes every CNAME record of the non-excluded,       *)
(* zone-routable names of the call, all of them when a name has several,   *)
(* leaves every other record as it was, makes one Delete call per deleted  *)
(* record and none for a name without a record, and no call fails.         *)
C8_RemoveDeletes ==
    Did("RemoveDomains") =>
        LET doomed == Doomed(last.records, last.names)
        IN /\ \A z \in ZoneIDs :
                 records[z] = SelectSeq(last.records[z], LAMBDA r : r \notin doomed)
           /\ {calls[k].id : k \in CallsOf(calls, {"DeleteDNSRecord"})} = {r.ID : r \in doomed}
           /\ Cardinality(CallsOf(calls, {"DeleteDNSRecord"})) = Cardinality(doomed)
           /\ \A k \in 1..Len(calls) : calls[k].ok

C8_Witness ==
    /\ Did("RemoveDomains")
    /\ last.records = DuplicateRecords
    /\ last.names = << <<"x", "h", ".", "n">>, <<"h", ".", "n">> >>
    /\ Cardinality(CallsOf(calls, {"DeleteDNSRecord"})) = 2
    /\ records = NoRecords

EndsInCatchAll(ingress) == Len(ingress) > 0 /\ ingress[Len(ingress)].Hostname = <<>>

RulesFor(ingress, hostname) == {i \in 1..Len(ingress) : ingress[i].Hostname = hostname}

Hostnames(ingress) == [i \in 1..Len(ingress) |-> ingress[i].Hostname]

\* the names of a call in the order of their first occurrence, without those seen
RECURSIVE FirstOccurrences(_, _)
FirstOccurrences(names, seen) ==
    IF names = <<>> THEN <<>>
    ELSE IF Head(names) \in seen THEN FirstOccurrences(Tail(names), seen)
    ELSE <<Head(names)>> \o FirstOccurrences(Tail(names), seen \cup {Head(names)})

\* the rules a call has to add: one per non-excluded name without a rule
NewRules(names, ingress, serviceURL) ==
    LET new == FirstOccurrences(names, ExcludeDomains \cup Range(Hostnames(ingress)))
    IN [i \in 1..Len(new) |-> [Hostname |-> new[i], Service |-> serviceURL]]

(* C9: AddRoutes on an ingress list that ends in a catch-all inserts one   *)
(* rule {hostname, target} per non-excluded name without a rule, in the    *)
(* order of the names, immediately before the final catch-all, and keeps   *)
(* the existing rules in their order; on an empty list it writes the new   *)
(* rules followed by one catch-all with service http_status:404.           *)
C9_AddRoutesInserts ==
    Did("AddRoutes") =>
        LET pre == last.tunnelIngress
            new == NewRules(last.names, pre, last.serviceURL)
        IN /\ EndsInCatchAll(pre) =>
                 /\ Len(tunnelIngress) = Len(pre) + Len(new)
                 /\ SubSeq(tunnelIngress, Len(pre), Len(pre) + Len(new) - 1) = new
                 /\ tunnelIngress[Len(tunnelIngress)] = pre[Len(pre)]
                 /\ Hostnames(SubSeq(tunnelIngress, 1, Len(pre) - 1)) = Hostnames(SubSeq(pre, 1, Len(pre) - 1))
           /\ (pre = <<>> /\ new # <<>>) =>
                 /\ tunnelIngress = new \o <<CatchAll>>
                 /\ \E k \in CallsOf(calls, {"UpdateTunnelConfiguration"}) : calls[k].ingress = new \o <<CatchAll>>
           /\ (pre = <<>> /\ new = <<>>) =>
                 /\ tunnelIngress = <<>>
                 /\ tunnelOrigin = NoOrigin
                 /\ tunnelWarp = NoWarp
                 /\ CallsOf(calls, {"UpdateTunnelConfiguration"}) = {}

C9_Witness ==
    /\ Did("AddRoutes")
    /\ last.tunnelIngress = <<CatchAll>>
    /\ last.names = << <<"u", ".", "o">>, <<"h", ".", "n">> >>
    /\ tunnelIngress = << [Hostname |-> <<"u", ".", "o">>, Service |-> last.serviceURL],
                          [Hostname |-> <<"h", ".", "n">>, Service |-> last.serviceURL],
                          CatchAll >>

(* C10, as stated: after AddRoutes the ingress list holds exactly one rule *)
(* for every non-excluded name of the call, with the target as service.    *)
C10_OneRulePerName ==
    Did("AddRoutes") =>
        \A name \in Range(last.names) \ ExcludeDomains :
            /\ Cardinality(RulesFor(tunnelIngress, name)) = 1
            /\ \A i \in RulesFor(tunnelIngress, name) : tunnelIngress[i].Service = last.serviceURL

AtMostOneRule(ingress) == \A name \in TunnelNames : Cardinality(RulesFor(ingress, name)) <= 1

(* C10, amended: when the fetched list holds at most one rule per          *)
(* hostname, after AddRoutes it holds exactly one rule for every           *)
(* non-excluded name of the call, with the target as service; a rule that  *)
(* had the target is left alone (nothing is pushed when no rule changes),  *)
(* a rule with another target is updated at its place among the rules the  *)
(* list had, every other rule is unchanged, the rule count                 *)
(* grows only by the names that had no rule, and the same call again       *)
(* changes nothing and pushes nothing.                                     *)
C10_OneRulePerNameAmended ==
    (Did("AddRoutes") /\ AtMostOneRule(last.tunnelIngress)) =>
        LET pre == last.tunnelIngress
            new == NewRules(last.names, pre, last.serviceURL)
            wanted == Range(last.names) \ ExcludeDomains
        IN /\ \A name \in wanted :
                 /\ Cardinality(RulesFor(tunnelIngress, name)) = 1
                 /\ \A i \in RulesFor(tunnelIngress, name) : tunnelIngress[i].Service = last.serviceURL
           /\ pre # <<>> =>
                 /\ SelectSeq(tunnelIngress, LAMBDA rule : rule.Hostname \notin wanted)
                       = SelectSeq(pre, LAMBDA rule : rule.Hostname \notin wanted)
                 /\ SelectSeq(Hostnames(tunnelIngress), LAMBDA h : h \notin Range(Hostnames(new)))
                       = Hostnames(pre)
           /\ Len(tunnelIngress) = Len(pre) + Len(new) + (IF pre = <<>> /\ new # <<>> THEN 1 ELSE 0)
           /\ (\A name \in wanted : \E i \in RulesFor(pre, name) : pre[i].Service = last.serviceURL) =>
                 /\ tunnelIngress = pre
                 /\ CallsOf(calls, {"UpdateTunnelConfiguration"}) = {}
           /\ LET again == RunAddRoutes(World, last.names, last.serviceURL, {})
              IN /\ again.ingress = tunnelIngress
                 /\ CallsOf(again.calls, {"UpdateTunnelConfiguration"}) = {}

C10_Witness ==
    /\ Did("AddRoutes")
    /\ last.tunnelIngress = SeededIngress
    /\ last.names = << <<"h", ".", "n">>, <<"h", ".", "n">> >>
    /\ last.serviceURL = "http://s1"
    /\ tunnelIngress = [SeededIngress EXCEPT ![2].Service = "http://s1"]

CatchAlls(ingress) == RulesFor(ingress, <<>>)

OneCatchAllLast(ingress) == EndsInCatchAll(ingress) /\ Cardinality(CatchAlls(ingress)) = 1

Pushed == {calls[k].ingress : k \in CallsOf(calls, {"UpdateTunnelConfiguration"})}

(* C11: on a tunnel whose ingress list was empty or ended in its one       *)
(* catch-all, after any sequence of AddRoutes and RemoveRoutes calls with  *)
(* non-empty hostnames every list pushed to the provider holds exactly one *)
(* catch-all rule, as its last element (and so does the provider's list,   *)
(* unless it is still empty).                                              *)
C11_CatchAllLast ==
    /\ \A ingress \in Pushed : OneCatchAllLast(ingress)
    /\ tunnelIngress = <<>> \/ OneCatchAllLast(tunnelIngress)

C11_Witness ==
    /\ Did("RemoveRoutes")
    /\ Len(last.tunnelIngress) = 3
    /\ Pushed = {<<CatchAll>>}
    /\ tunnelIngress = <<CatchAll>>

(* C12: RemoveRoutes never deletes the catch-all rule, also when a name of *)
(* the call is the empty hostname of the catch-all.                        *)
C12_CatchAllKept ==
    Did("RemoveRoutes") =>
        /\ Cardinality(CatchAlls(tunnelIngress)) = Cardinality(CatchAlls(last.tunnelIngress))
        /\ \A ingress \in Pushed : Cardinality(CatchAlls(ingress)) = Cardinality(CatchAlls(last.tunnelIngress))

(* C13: when the fetched ingress list holds no catch-all rule, empty or    *)
(* not, the list AddRoutes pushes ends with a created catch-all rule with  *)
(* service http_status:404.                                                *)
C13_CatchAllCreated ==
    (Did("AddRoutes") /\ CatchAlls(last.tunnelIngress) = {}) =>
        \A ingress \in Pushed : Len(ingress) > 0 /\ ingress[Len(ingress)] = CatchAll

RecordCalls == {"ListDNSRecords", "CreateDNSRecord", "UpdateDNSRecord", "DeleteDNSRecord"}

----------------------------------------------------------------------------
(* Properties of the registry operations (SpecRegistry).                   *)

\* what containerInfoByDomain may return for a domain, over the orders of the map
Lookups(infoMap, domain) ==
    {containerInfoByDomain(infoMap, mapOrder, Fqdn(domain)) : mapOrder \in Orders(Registered(infoMap))}

\* the domains of the container of the last updateContainerInfo, as sets
PlainOf(container) ==
    Range(resolveDomainsByContainer(container,
              CHOOSE o \in Orders(DOMAIN container.Labels) : TRUE,
              CHOOSE o \in Orders(DOMAIN container.Networks) : TRUE,
              traefikCNAME, traefikA).domains)

RedirectOf(container) ==
    Range(resolveDomainsByContainer(container,
              CHOOSE o \in Orders(DOMAIN container.Labels) : TRUE,
              CHOOSE o \in Orders(DOMAIN container.Networks) : TRUE,
              traefikCNAME, traefikA).cnameDomains)

NoAddress(container, inspect) ==
    LET r == getContainerAddress(container, FALSE, inspect) IN r.err \/ r.ip = NoIP

(* C17: when address resolution fails or yields no IPv4 address,           *)
(* updateContainerInfo drops the plain domains and keeps the redirect      *)
(* domains: a unit with a redirect domain is stored as a redirect-only     *)
(* entry, every lookup of one of its names has isCNAME = true, and the     *)
(* call returns no error.                                                  *)
C17_RedirectOnly ==
    Did("updateContainerInfo") =>
        /\ ~last.err
        /\ NoAddress(last.container, last.inspect) =>
              LET entry == containerInfoMap[last.id]
                  redirect == RedirectOf(last.container)
              IN /\ redirect = {} => ~entry.present
                 /\ redirect # {} =>
                       /\ entry.present
                       /\ entry.domains = <<>>
                       /\ entry.address = NoIP
                       /\ Range(entry.cnameDomains) = redirect
                       /\ \A name \in redirect :
                             \A r \in Lookups(containerInfoMap, name) : r.found /\ r.isCNAME

(* C18: after updateContainerInfo the entry of the container's id is       *)
(* exactly the entry computed from the new container - none of the         *)
(* domains or addresses of the previous entry survives - there is no       *)
(* entry when the new domain set (plain and redirect) is empty, whatever   *)
(* was stored before, and the entries of the other ids are unchanged.      *)
C18_ReplaceNoMerge ==
    Did("updateContainerInfo") =>
        LET c == last.container
            entry == containerInfoMap[last.id]
            plain == IF NoAddress(c, last.inspect) THEN {} ELSE PlainOf(c)
        IN /\ \E labelOrder \in Orders(DOMAIN c.Labels), netOrder \in Orders(DOMAIN c.Networks) :
                 entry = NewContainerInfo(c, labelOrder, netOrder, last.inspect, traefikCNAME, traefikA)
           /\ entry.present =>
                 /\ Range(entry.domains) = plain
                 /\ Range(entry.cnameDomains) = RedirectOf(c)
                 /\ entry.address = getContainerAddress(c, FALSE, last.inspect).ip
           /\ entry.present <=> (plain \cup RedirectOf(c) # {})
           /\ \A id \in ContainerIDs \ {last.id} : containerInfoMap[id] = last.infoMap[id]

C18_Witness ==
    /\ Did("updateContainerInfo")
    /\ last.infoMap[last.id].present
    /\ ~containerInfoMap[last.id].present
    /\ \E id \in ContainerIDs \ {last.id} : containerInfoMap[id].present

(* C19: removeContainerInfo deletes the entry of the id, so that no lookup *)
(* of one of its plain or redirect names returns that entry, and leaves    *)
(* the other entries; for an id without an entry it changes nothing,       *)
(* dispatches no syncer call and returns no error.                         *)
C19_RemoveDeletes ==
    Did("removeContainerInfo") =>
        LET prior == last.infoMap[last.id]
        IN /\ ~last.err
           /\ ~containerInfoMap[last.id].present
           /\ \A id \in ContainerIDs \ {last.id} : containerInfoMap[id] = last.infoMap[id]
           /\ prior.present =>
                 \A name \in Range(prior.domains) \cup Range(prior.cnameDomains) :
                     \A r \in Lookups(containerInfoMap, name) : r.found => r.containerInfo.ID # last.id
           /\ ~prior.present => (containerInfoMap = last.infoMap /\ last.dispatched = <<>>)

C19_Witness ==
    /\ Did("removeContainerInfo")
    /\ last.infoMap[last.id].present
    /\ last.infoMap[last.id].domains # <<>>
    /\ last.infoMap[last.id].cnameDomains # <<>>
    /\ last.dispatched # <<>>
    /\ \E id \in ContainerIDs \ {last.id} : containerInfoMap[id].present

\* the container of the last call has one attachment and no selector label
SingleAttachment(container) ==
    /\ Cardinality(DOMAIN container.Networks) = 1
    /\ NetworkLabel \notin DOMAIN container.Labels

SoleNetwork(container) == container.Networks[CHOOSE n \in DOMAIN container.Networks : TRUE]

\* the network mode sends the resolution elsewhere
ModeBypasses(container) ==
    container.NetworkMode = <<"host">> \/ IsContainerMode(container.NetworkMode)

(* C20: for a container with a single network attachment and no selector   *)
(* label, getContainerAddress returns exactly the address of that          *)
(* attachment, and that is the address of the stored entry.                *)
C20_SingleAttachment ==
    (Did("updateContainerInfo") /\ SingleAttachment(last.container)) =>
        LET c == last.container
            r == getContainerAddress(c, FALSE, last.inspect)
        IN /\ ~r.err
           /\ r.ip = ParseIP(SoleNetwork(c).IPAddress)
           /\ containerInfoMap[last.id].present =>
                 containerInfoMap[last.id].address = ParseIP(SoleNetwork(c).IPAddress)

(* C20 (amended): for a container with a single network attachment and no  *)
(* selector label, getContainerAddress returns the top-level address of    *)
(* the network settings when there is one; when there is none and the      *)
(* network mode is neither "host" nor "container:<id>", it returns exactly *)
(* the address of that attachment (IPv4 and IPv6 alike), and that is the   *)
(* address of the stored entry.                                            *)
C20_SingleAttachmentAmended ==
    (Did("updateContainerInfo") /\ SingleAttachment(last.container)) =>
        LET c == last.container
            r == getContainerAddress(c, FALSE, last.inspect)
            r6 == getContainerAddress(c, TRUE, last.inspect)
            entry == containerInfoMap[last.id]
        IN /\ c.IPAddress # "" =>
                 /\ ~r.err
                 /\ r.ip = ParseIP(c.IPAddress)
                 /\ entry.present => entry.address = ParseIP(c.IPAddress)
           /\ c.GlobalIPv6Address # "" => (~r6.err /\ r6.ip = ParseIP(c.GlobalIPv6Address))
           /\ (c.IPAddress = "" /\ ~ModeBypasses(c)) =>
                 /\ ~r.err
                 /\ r.ip = ParseIP(SoleNetwork(c).IPAddress)
                 /\ entry.present => entry.address = ParseIP(SoleNetwork(c).IPAddress)
           /\ (c.GlobalIPv6Address = "" /\ ~ModeBypasses(c)) =>
                 (~r6.err /\ r6.ip = ParseIP(SoleNetwork(c).GlobalIPv6Address))

C20_Witness ==
    /\ Did("updateContainerInfo")
    /\ SingleAttachment(last.container)
    /\ last.container.IPAddress = ""
    /\ SoleNetwork(last.container).IPAddress = "10.0.0.1"
    /\ containerInfoMap[last.id].present
    /\ containerInfoMap[last.id].address = "10.0.0.1"

\* no usable top-level address, no selector label, and zero or several attachments
NoSoleAttachment(container) ==
    /\ ParseIP(container.IPAddress) = NoIP
    /\ NetworkLabel \notin DOMAIN container.Labels
    /\ Cardinality(DOMAIN container.Networks) # 1

\* the outcome of an update whose address resolution found nothing
NothingPlainStored ==
    /\ ~last.err
    /\ containerInfoMap[last.id].present =>
          /\ containerInfoMap[last.id].domains = <<>>
          /\ containerInfoMap[last.id].address = NoIP
    /\ \A name \in PlainOf(last.container) :
          \A r \in Lookups(containerInfoMap, name) :
              r.found => (r.containerInfo.ID # last.id \/ r.isCNAME)
    /\ \A id \in ContainerIDs \ {last.id} : containerInfoMap[id] = last.infoMap[id]

TwoAttachments(container) ==
    /\ container.IPAddress = ""
    /\ Cardinality(DOMAIN container.Networks) = 2
    /\ container.NetworkMode \in DOMAIN container.Networks

\* the entry of the last call holds the plain domains with the address of the attachment
StoredWith(network) ==
    /\ ~last.err
    /\ containerInfoMap[last.id].present
    /\ containerInfoMap[last.id].address = ParseIP(network.IPAddress)
    /\ Range(containerInfoMap[last.id].domains) = PlainOf(last.container)

(* C22: for a container with no top-level address and two attachments,     *)
(* updateContainerInfo without a selector label registers the plain        *)
(* domains with the address of the attachment named by the network mode,   *)
(* and with a selector label naming an attachment it registers them with   *)
(* the address of that attachment.                                         *)
C22_NetworkModePrevails ==
    (/\ Did("updateContainerInfo")
     /\ TwoAttachments(last.container)
     /\ PlainOf(last.container) # {}) =>
        LET c == last.container
        IN IF NetworkLabel \notin DOMAIN c.Labels
           THEN StoredWith(c.Networks[c.NetworkMode])
           ELSE c.Labels[NetworkLabel] \in DOMAIN c.Networks =>
                    StoredWith(c.Networks[c.Labels[NetworkLabel]])

\* the half of C22 about the selector label
C22_SelectorHalf ==
    (/\ Did("updateContainerInfo")
     /\ TwoAttachments(last.container)
     /\ PlainOf(last.container) # {}
     /\ NetworkLabel \in DOMAIN last.container.Labels
     /\ last.container.Labels[NetworkLabel] \in DOMAIN last.container.Networks) =>
        StoredWith(last.container.Networks[last.container.Labels[NetworkLabel]])

C22_SelectorReached ==
    /\ Did("updateContainerInfo")
    /\ TwoAttachments(last.container)
    /\ NetworkLabel \in DOMAIN last.container.Labels
    /\ containerInfoMap[last.id].present
    /\ containerInfoMap[last.id].address = "10.0.0.2"

(* C28: every entry of the registry has an IPv4 address or at least one    *)
(* redirect domain; an entry with neither is never stored.                 *)
C28_AddressOrRedirect ==
    \A id \in ContainerIDs :
        containerInfoMap[id].present =>
            \/ containerInfoMap[id].address # NoIP
            \/ containerInfoMap[id].cnameDomains # <<>>

C28_Witness ==
    /\ Did("updateContainerInfo")
    /\ NoAddress(last.container, last.inspect)
    /\ PlainOf(last.container) # {}
    /\ containerInfoMap[last.id].present
    /\ containerInfoMap[last.id].address = NoIP
    /\ \E id \in ContainerIDs \ {last.id} :
          containerInfoMap[id].present /\ containerInfoMap[id].cnameDomains = <<>>

\* the positions of the PutTunnelConfig calls of the last call
Puts == CallsOf(calls, {"UpdateTunnelConfiguration"})

\* every name of the call is excluded or has its first rule with that service
AllUpToDate(ingress, names, serviceURL) ==
    \A i \in 1..Len(names) :
        \/ Excluded(names[i])
        \/ /\ findRule(ingress, names[i]) # 0
           /\ ingress[findRule(ingress, names[i])].Service = serviceURL

\* every name of the call is excluded or has no rule
AllAbsent(ingress, names) ==
    \A i \in 1..Len(names) : Excluded(names[i]) \/ RulesFor(ingress, names[i]) = {}

(* C30: AddRoutes and RemoveRoutes push the ingress list only when their   *)
(* mutation changed the fetched list: at most one PutTunnelConfig per      *)
(* call, always with a list that differs from the fetched one; a call      *)
(* whose names are all excluded or already present with the same target,   *)
(* or for RemoveRoutes all excluded or absent, makes no PutTunnelConfig    *)
(* and leaves the ingress list of the provider unchanged.                  *)
C30_PutOnlyOnChange ==
    (Did("AddRoutes") \/ Did("RemoveRoutes")) =>
        /\ Cardinality(Puts) <= 1
        /\ \A k \in Puts : calls[k].ingress # last.tunnelIngress
        /\ Puts = {} => tunnelIngress = last.tunnelIngress
        /\ (Did("AddRoutes") /\ AllUpToDate(last.tunnelIngress, last.names, last.serviceURL)) => Puts = {}
        /\ (Did("RemoveRoutes") /\ AllAbsent(last.tunnelIngress, last.names)) => Puts = {}

C30_Witness ==
    /\ Did("AddRoutes")
    /\ last.names # <<>>
    /\ \E i \in 1..Len(last.names) : ~Excluded(last.names[i])
    /\ AllUpToDate(last.tunnelIngress, last.names, last.serviceURL)
    /\ Puts = {}
    /\ CallsOf(calls, {"GetTunnelConfiguration"}) # {}
    /\ tunnelIngress = last.tunnelIngress

----------------------------------------------------------------------------
(* Properties of the CloudflareSyncer under provider errors                *)
(* (SpecSyncFailing).                                                      *)

\* the provider as the last call found it
PreWorld ==
    [records |-> last.records,
     nextID |-> nextID - Cardinality({k \in CallsOf(calls, {"CreateDNSRecord"}) : calls[k].ok}),
     ingress |-> last.tunnelIngress, calls |-> <<>>]

RunBatch(op, w, domains, fail) ==
    IF op = "SyncDomains" THEN RunSyncDomains(w, domains, fail) ELSE RunRemoveDomains(w, domains, fail)

\* the positions of the batch at which a provider call returned an error
RECURSIVE FailedIndices(_, _, _, _, _)
FailedIndices(op, w, domains, i, fail) ==
    IF i > Len(domains) THEN {}
    ELSE LET w1 == RunBatch(op, w, <<domains[i]>>, fail)
             bad == \E k \in (Len(w.calls) + 1)..Len(w1.calls) : ~w1.calls[k].ok
         IN (IF bad THEN {i} ELSE {}) \cup FailedIndices(op, w1, domains, i + 1, fail)

\* the batch without the positions in dropped
RECURSIVE Keep(_, _, _)
Keep(domains, i, dropped) ==
    IF i > Len(domains) THEN <<>>
    ELSE (IF i \in dropped THEN <<>> ELSE <<domains[i]>>) \o Keep(domains, i + 1, dropped)

\* the provider calls that carry the name, in order
NamedCallSeq(log, name) ==
    LET named == SelectSeq(log, LAMBDA c : c.name = name)
    IN [k \in 1..Len(named) |-> <<named[k].api, named[k].id, named[k].ok>>]

FailedNow == FailedIndices(last.op, PreWorld, last.names, 1, last.fail)

(* C29: in SyncDomains and RemoveDomains a provider error for one name     *)
(* only skips that name: every name of the batch that met no error gets    *)
(* the provider calls and ends with the records it gets when the batch is  *)
(* run without the failing positions against a provider that does not      *)
(* fail, and the names the batch does not hold keep their records.         *)
C29_ErrorSkipsOneName ==
    (Did("SyncDomains") \/ Did("RemoveDomains")) =>
        LET failedNames == {last.names[i] : i \in FailedNow}
            ref == RunBatch(last.op, PreWorld, Keep(last.names, 1, FailedNow), {})
        IN /\ \A name \in SyncNames \ failedNames :
                 /\ Cnames(records, name) = Cnames(ref.records, name)
                 /\ NamedCallSeq(calls, name) = NamedCallSeq(ref.calls, name)
           /\ \A name \in SyncNames \ Range(last.names) :
                 Cnames(records, name) = Cnames(last.records, name)

C29_Witness ==
    /\ Did("SyncDomains")
    /\ Len(last.names) = 2
    /\ FailedNow = {1}
    /\ last.names[2] # last.names[1]
    /\ \E k \in CallsFor(calls, {"CreateDNSRecord"}, last.names[2]) : calls[k].ok
    /\ Cnames(records, last.names[1]) = {}

C29_WitnessRemove ==
    /\ Did("RemoveDomains")
    /\ Len(last.names) = 2
    /\ FailedNow = {1}
    /\ last.names[2] # last.names[1]
    /\ Cnames(last.records, last.names[2]) # {}
    /\ Cnames(records, last.names[2]) = {}
    /\ Cnames(records, last.names[1]) # {}

----------------------------------------------------------------------------
(* Properties of createPlugin (SpecConfig).                                *)

\* the block gives the directive with a value createPlugin does not skip
Gives(directives, name) ==
    \E i \in 1..Len(directives) :
        directives[i].name = name /\ directives[i].given /\ directives[i].arg # <<>>

(* C25: whatever the directives, the DockerDiscovery createPlugin returns  *)
(* never has both traefikCNAME and traefikA set, with or without an error; *)
(* a block that gives both traefik_cname and traefik_a with a value, in    *)
(* either order, makes createPlugin return an error; and a target set      *)
(* together with the traefik resolver.                                     *)
C25_TraefikTargetsExclusive ==
    /\ ~(traefikCNAME # <<>> /\ traefikA # NoIP)
    /\ Did("createPlugin") =>
          /\ (Gives(last.directives, "traefik_cname") /\ Gives(last.directives, "traefik_a")) =>
                last.err # ""
          /\ (traefikCNAME # <<>> \/ traefikA # NoIP) => last.traefikResolver

C25_Witness ==
    /\ Did("createPlugin")
    /\ Len(last.directives) = 2
    /\ last.directives[1].name = "traefik_a"
    /\ last.directives[2].name = "traefik_cname"
    /\ Gives(last.directives, "traefik_cname")
    /\ traefikA = "9.9.9.9"
    /\ last.err = "mutually exclusive"

\* the Cloudflare configuration sets the CNAME target only when no traefik target is given
C25_AutoEnableReached ==
    /\ Did("createPlugin")
    /\ last.err = ""
    /\ last.cloudflareSyncer
    /\ Gives(last.directives, "traefik_a")
    /\ traefikA = "9.9.9.9"
    /\ traefikCNAME = <<>>

----------------------------------------------------------------------------
(* The plugin at run time.  The event loop starts one goroutine per Docker *)
(* event, the server one per query, and the registry one per syncer call   *)
(* it dispatches.  Each step is one goroutine running up to its next lock  *)
(* operation, map access or provider call.                                 *)

\* the events the event loop receives in a run, and the queries served
MaxEvents == 2
MaxLookups == 1

\* a traefik rule for a name of zone Z2
RuleH == Router1 :> <<"<", "h", ".", "n", ">">>

\* what InspectContainerWithOptions may return for the container of an event
RunContainers == { MkContainer("c1", RuleH, NetTop), MkContainer("c1", RuleH, NetNone) }

\* container:start (and network:connect / network:disconnect, handled alike) and container:die
RunEvents == { [action |-> a, id |-> "c1"] : a \in {"start", "die"} }

EventLists == UNION { [1..n -> RunEvents] : n \in 1..MaxEvents }

RunQNames == { <<"h", ".", "n", ".">> }

HandlerKinds == {"start", "die"}
TaskKinds == {"SyncDomains", "RemoveDomains"}

\* a goroutine: what it runs, where it is, and its local variables
Routine(kind, pc, id, container, names, listed) ==
    [kind |-> kind, pc |-> pc, id |-> id, container |-> container, names |-> names, listed |-> listed]

\* go func(msg) of the event loop
Handler(event) ==
    IF event.action = "start"
    THEN Routine("start", "Inspect", event.id, InspectError, <<>>, <<>>)
    ELSE Routine("die", "Lock", event.id, InspectError, <<>>, <<>>)

\* the goroutines without the one that returned
Drop(rs, i) == SubSeq(rs, 1, i - 1) \o SubSeq(rs, i + 1, Len(rs))

\* the go statements of a handler: one goroutine per dispatched syncer call
RECURSIVE Spawn(_, _)
Spawn(rs, dispatched) ==
    IF dispatched = <<>> THEN rs
    ELSE Spawn(Append(rs, Routine(Head(dispatched).op, "List", "", InspectError,
                                  Head(dispatched).names, <<>>)),
               Tail(dispatched))

\* sync.RWMutex: Lock waits for the writer and the readers, RLock for the writer
CanLock(m) == ~m.writer /\ m.readers = 0

\* a read lock that does not wait for the writer
CanRLockAlways(m) == TRUE

CanRLock(m) == ~m.writer

\* a handler that returns only once the syncer calls have returned
HandlerDoneAfterSync(rs, i) ==
    /\ rs[i].pc = "Unlock"
    /\ \A j \in 1..Len(rs) : rs[j].kind \notin TaskKinds

\* the handler has reached its return: the deferred Unlock runs
HandlerDone(rs, i) == rs[i].pc = "Unlock"

NoSeen == [qname |-> <<>>, found |-> FALSE, torn |-> FALSE]

\* the record of the run: the events applied to the map, in order; whether a provider
\* call failed; the map as of the last Unlock; what the last lookup saw; the queries served
RunLog(handled, failed, committed, seen, lookups) ==
    [op |-> "run", handled |-> handled, failed |-> failed, committed |-> committed,
     seen |-> seen, lookups |-> lookups]

\* for msg := range events { go func(msg) ... }
Receive ==
    /\ events # <<>>
    /\ routines' = Append(routines, Handler(Head(events)))
    /\ events' = Tail(events)
    /\ UNCHANGED <<traefikCNAME, traefikA, containerInfoMap, resp, syncVars, tunnelSyncer, mutex, mu>>

\* dd.dockerClient.InspectContainerWithOptions: the handler returns on an error
InspectFrom(i, containers) ==
    /\ routines[i].kind = "start" /\ routines[i].pc = "Inspect"
    /\ \E container \in containers \cup {InspectError} :
          IF container = InspectError
          THEN routines' = Drop(routines, i)
          ELSE /\ container.ID = routines[i].id
               /\ routines' = [routines EXCEPT ![i].container = container, ![i].pc = "Lock"]
    /\ UNCHANGED <<traefikCNAME, traefikA, containerInfoMap, resp, syncVars, tunnelSyncer, mutex, mu, events>>

Inspect(i) == InspectFrom(i, RunContainers)

\* dd.mutex.Lock() of updateContainerInfo and removeContainerInfo
Lock(i) ==
    /\ routines[i].kind \in HandlerKinds /\ routines[i].pc = "Lock"
    /\ CanLock(mutex)
    /\ mutex' = [mutex EXCEPT !.writer = TRUE]
    /\ routines' = [routines EXCEPT ![i].pc = IF routines[i].kind = "start" THEN "delete" ELSE "remove"]
    /\ UNCHANGED <<traefikCNAME, traefikA, containerInfoMap, resp, syncVars, tunnelSyncer, mu, events>>

\* updateContainerInfo: delete(dd.containerInfoMap, container.ID)
DeleteOld(i) ==
    /\ routines[i].kind = "start" /\ routines[i].pc = "delete"
    /\ containerInfoMap' = [containerInfoMap EXCEPT ![routines[i].id] = NoInfo]
    /\ routines' = [routines EXCEPT ![i].pc = "store"]
    /\ UNCHANGED <<traefikCNAME, traefikA, resp, syncVars, tunnelSyncer, mutex, mu, events>>

\* getContainerAddress reaches its InspectContainerWithOptions call: the container has
\* no top-level address to return (or a network label) and is in another one's namespace
CallsInspect(container) ==
    /\ ~(container.IPAddress # "" /\ NetworkLabel \notin DOMAIN container.Labels)
    /\ IsContainerMode(container.NetworkMode)

\* updateContainerInfo from its resolution on; inspect is what the Inspect calls of
\* getContainerAddress return
StoreWith(i, inspect) ==
    /\ LET container == routines[i].container IN
       \E labelOrder \in Orders(DOMAIN container.Labels),
          netOrder \in Orders(DOMAIN container.Networks) :
           \E info \in {NewContainerInfo(container, labelOrder, netOrder, inspect, traefikCNAME, traefikA)} :
              /\ containerInfoMap' = StoreEntry(containerInfoMap, container.ID, info)
              /\ routines' = Spawn([routines EXCEPT ![i].pc = "Unlock"], UpdateDispatch(info))
    /\ last' = [last EXCEPT !.handled = Append(@, [action |-> "start", id |-> routines[i].id])]
    /\ UNCHANGED <<traefikCNAME, traefikA, resp, records, nextID, tunnelIngress, tunnelOrigin, tunnelWarp, calls,
                   tunnelSyncer, mutex, mu, events>>

\* updateContainerInfo: resolve, store the entry, go SyncDomains
Store(i) ==
    /\ routines[i].kind = "start" /\ routines[i].pc = "store"
    /\ ~CallsInspect(routines[i].container)
    /\ \E inspect \in InspectChoices(routines[i].container) : StoreWith(i, inspect)

\* removeContainerInfo: go RemoveDomains, delete the entry
Remove(i) ==
    /\ routines[i].kind = "die" /\ routines[i].pc = "remove"
    /\ routines' = Spawn([routines EXCEPT ![i].pc = "Unlock"],
                         RemoveDispatch(containerInfoMap, routines[i].id))
    /\ containerInfoMap' = RemoveEntry(containerInfoMap, routines[i].id)
    /\ last' = [last EXCEPT !.handled = Append(@, [action |-> "die", id |-> routines[i].id])]
    /\ UNCHANGED <<traefikCNAME, traefikA, resp, records, nextID, tunnelIngress, tunnelOrigin, tunnelWarp, calls,
                   tunnelSyncer, mutex, mu, events>>

\* defer dd.mutex.Unlock()
Unlock(i) ==
    /\ routines[i].kind \in HandlerKinds
    /\ HandlerDone(routines, i)
    /\ mutex' = [mutex EXCEPT !.writer = FALSE]
    /\ routines' = Drop(routines, i)
    /\ last' = [last EXCEPT !.committed = containerInfoMap]
    /\ UNCHANGED <<traefikCNAME, traefikA, containerInfoMap, resp, records, nextID, tunnelIngress, tunnelOrigin, tunnelWarp,
                   calls, tunnelSyncer, mu, events>>

\* the server calls ServeDNS on a goroutine of its own
Query(qname) ==
    /\ last.lookups < MaxLookups
    /\ routines' = Append(routines, Routine("lookup", "RLock", "", InspectError, <<qname>>, <<>>))
    /\ last' = [last EXCEPT !.lookups = @ + 1]
    /\ UNCHANGED <<traefikCNAME, traefikA, containerInfoMap, resp, records, nextID, tunnelIngress, tunnelOrigin, tunnelWarp,
                   calls, tunnelSyncer, mutex, mu, events>>

\* dd.mutex.RLock() of containerInfoByDomain
RLock(i) ==
    /\ routines[i].kind = "lookup" /\ routines[i].pc = "RLock"
    /\ CanRLock(mutex)
    /\ mutex' = [mutex EXCEPT !.readers = @ + 1]
    /\ routines' = [routines EXCEPT ![i].pc = "scan"]
    /\ UNCHANGED <<traefikCNAME, traefikA, containerInfoMap, resp, syncVars, tunnelSyncer, mu, events>>

\* containerInfoByDomain scans the map and releases the read lock; ServeDNS replies
Scan(i) ==
    /\ routines[i].kind = "lookup" /\ routines[i].pc = "scan"
    /\ \E mapOrder \in Orders(Registered(containerInfoMap)) :
          LET result == containerInfoByDomain(containerInfoMap, mapOrder, routines[i].names[1])
          IN /\ resp' = Reply("A", routines[i].names[1], result, traefikCNAME, traefikA)
             /\ last' = [last EXCEPT !.seen = [qname |-> routines[i].names[1],
                                               found |-> result.found,
                                               torn |-> containerInfoMap # last.committed]]
    /\ mutex' = [mutex EXCEPT !.readers = @ - 1]
    /\ routines' = Drop(routines, i)
    /\ UNCHANGED <<traefikCNAME, traefikA, containerInfoMap, records, nextID, tunnelIngress, tunnelOrigin, tunnelWarp,
                   calls, tunnelSyncer, mu, events>>

\* the call positions that fail when the next provider call does
FailIf(failing) == IF failing THEN {1} ELSE {}

\* the syncer loop moves to its next domain, and returns after the last
Advance(rs, i) ==
    IF Len(rs[i].names) = 1 THEN Drop(rs, i)
    ELSE [rs EXCEPT ![i].names = Tail(@), ![i].pc = "List", ![i].listed = <<>>]

\* the provider after a step of a syncer call
Provider(w, failed) ==
    /\ w.nextID <= MaxRecordID + 1
    /\ records' = w.records
    /\ nextID' = w.nextID
    /\ calls' = w.calls
    /\ last' = [last EXCEPT !.failed = @ \/ failed]
    /\ UNCHANGED <<tunnelIngress, tunnelOrigin, tunnelWarp>>

(* SyncDomains / RemoveDomains at their next domain: excluded and zoneless *)
(* names are skipped, the others are listed (upsertRecord, deleteRecord).  *)
TaskList(i, ok) ==
    /\ routines[i].kind \in TaskKinds /\ routines[i].pc = "List"
    /\ LET domain == Head(routines[i].names)
           zoneID == findZoneForDomain(domain)
       IN IF Excluded(domain) \/ zoneID = NoZone
          THEN /\ ok
               /\ routines' = Advance(routines, i)
               /\ UNCHANGED syncVars
          ELSE LET w1 == DoList(World, zoneID, domain, FailIf(~ok))
                   existing == ListDNSRecords(World, zoneID, "CNAME", domain)
                   done == IF routines[i].kind = "SyncDomains"
                           THEN Len(existing) > 0 /\ existing[1].Content = TargetDomain
                           ELSE existing = <<>>
               IN /\ Provider(w1, ~ok)
                  /\ routines' = IF ~ok \/ done THEN Advance(routines, i)
                                 ELSE [routines EXCEPT ![i].pc = "Write", ![i].listed = existing]
    /\ UNCHANGED <<traefikCNAME, traefikA, containerInfoMap, resp, tunnelSyncer, mutex, mu, events>>

(* upsertRecord after its listing: update the first record or create one;  *)
(* deleteRecord after its listing: delete the next listed record, and      *)
(* return at the first error.                                              *)
TaskWrite(i, ok) ==
    /\ routines[i].kind \in TaskKinds /\ routines[i].pc = "Write"
    /\ LET domain == Head(routines[i].names)
           zoneID == findZoneForDomain(domain)
           listed == routines[i].listed
       IN IF routines[i].kind = "SyncDomains"
          THEN LET w1 == IF Len(listed) > 0
                         THEN UpdateDNSRecord(World, zoneID, listed[1].ID,
                                              CnameRecord(domain, TargetDomain), FailIf(~ok))
                         ELSE CreateDNSRecord(World, zoneID, CnameRecord(domain, TargetDomain),
                                              FailIf(~ok))
               IN /\ Provider(w1, ~LastOk(w1))
                  /\ routines' = Advance(routines, i)
          ELSE LET w1 == DeleteDNSRecord(World, zoneID, Head(listed).ID, FailIf(~ok))
               IN /\ Provider(w1, ~LastOk(w1))
                  /\ routines' = IF ~LastOk(w1) \/ Len(listed) = 1 THEN Advance(routines, i)
                                 ELSE [routines EXCEPT ![i].listed = Tail(@)]
    /\ UNCHANGED <<traefikCNAME, traefikA, containerInfoMap, resp, tunnelSyncer, mutex, mu, events>>


\* the plugin with a CloudflareSyncer (which makes its target the CNAME target), no
\* container running, and the events of the run still to come
RunStart(withTunnelSyncer, eventLists) ==
    /\ traefikCNAME = TargetDomain
    /\ traefikA = NoIP
    /\ containerInfoMap = [id \in ContainerIDs |-> NoInfo]
    /\ resp = NoResp
    /\ records = [z \in ZoneIDs |-> <<>>]
    /\ nextID = 1
    /\ tunnelIngress = <<>>
    /\ tunnelOrigin = NoOrigin
    /\ tunnelWarp = NoWarp
    /\ calls = <<>>
    /\ last = RunLog(<<>>, FALSE, [id \in ContainerIDs |-> NoInfo], NoSeen, 0)
    /\ tunnelSyncer = withTunnelSyncer
    /\ mutex = Unlocked
    /\ mu = FALSE
    /\ routines = <<>>
    /\ events \in eventLists

InitRun == RunStart(FALSE, EventLists)

\* the steps of the event loop, the event handlers and the lookups
RegistryStep ==
    \/ Receive
    \/ \E i \in 1..Len(routines) : Inspect(i)
    \/ \E i \in 1..Len(routines) : Lock(i)
    \/ \E i \in 1..Len(routines) : DeleteOld(i)
    \/ \E i \in 1..Len(routines) : Store(i)
    \/ \E i \in 1..Len(routines) : Remove(i)
    \/ \E i \in 1..Len(routines) : Unlock(i)
    \/ \E i \in 1..Len(routines) : RLock(i)
    \/ \E i \in 1..Len(routines) : Scan(i)

\* the steps of the syncer calls: each provider call returns, with or without an error
SyncerStep ==
    \/ \E i \in 1..Len(routines), ok \in BOOLEAN : TaskList(i, ok)
    \/ \E i \in 1..Len(routines), ok \in BOOLEAN : TaskWrite(i, ok)

NextRun ==
    \/ RegistryStep
    \/ \E qname \in RunQNames : Query(qname)
    \/ SyncerStep

SpecRun == InitRun /\ [][NextRun]_vars

\* the run in which the event source sends the start of a container and then its die
StopAfterStart == << [action |-> "start", id |-> "c1"], [action |-> "die", id |-> "c1"] >>

InitRunStopAfterStart == InitRun /\ events = StopAfterStart

SpecRunStopAfterStart == InitRunStopAfterStart /\ [][NextRun]_vars

(* Containers that run in the network namespace of another container:     *)
(* getContainerAddress, called by updateContainerInfo under the write      *)
(* lock, asks the Docker daemon for the other container, and again for the *)
(* one that one points at, until one has an address or a network.          *)
IndirectContainers == { MkContainer("c1", RuleH, NetTop), MkContainer("c1", RuleH, NetOther) }

InspectIndirect(i) == InspectFrom(i, IndirectContainers)

\* getContainerAddress calls InspectContainerWithOptions; inspect is what the daemon
\* holds for each id, and so what this call and the next ones of the loop return
CallInspect(i) ==
    /\ routines[i].kind = "start" /\ routines[i].pc = "store"
    /\ CallsInspect(routines[i].container)
    /\ \E inspect \in InspectChoices(routines[i].container) :
          routines' = [routines EXCEPT ![i] = [@ EXCEPT !.pc = "InspectOther"] @@ [inspect |-> inspect]]
    /\ UNCHANGED <<traefikCNAME, traefikA, containerInfoMap, resp, syncVars, tunnelSyncer, mutex, mu, events>>

\* the loop of getContainerAddress ends, and updateContainerInfo goes on
StoreInspected(i) ==
    /\ routines[i].kind = "start" /\ routines[i].pc = "InspectOther"
    /\ ~getContainerAddress(routines[i].container, FALSE, routines[i].inspect).loops
    /\ StoreWith(i, routines[i].inspect)

RegistryStepIndirect ==
    \/ Receive
    \/ \E i \in 1..Len(routines) : InspectIndirect(i)
    \/ \E i \in 1..Len(routines) : Lock(i)
    \/ \E i \in 1..Len(routines) : DeleteOld(i)
    \/ \E i \in 1..Len(routines) : Store(i)
    \/ \E i \in 1..Len(routines) : CallInspect(i)
    \/ \E i \in 1..Len(routines) : StoreInspected(i)
    \/ \E i \in 1..Len(routines) : Remove(i)
    \/ \E i \in 1..Len(routines) : Unlock(i)
    \/ \E i \in 1..Len(routines) : RLock(i)
    \/ \E i \in 1..Len(routines) : Scan(i)

NextRunIndirect ==
    \/ RegistryStepIndirect
    \/ \E qname \in RunQNames : Query(qname)
    \/ SyncerStep

SpecRunIndirect == InitRun /\ [][NextRunIndirect]_vars

(* Two containers that share a redirect name, and a container whose labels *)
(* change between two events: the provider calls all return without error. *)
MaxUnitEvents == 3

\* a traefik rule for another name of zone Z2
RuleXH == Router1 :> <<"<", "x", "h", ".", "n", ">">>

UnitContainers ==
    { MkContainer("c1", RuleH, NetTop), MkContainer("c1", RuleXH, NetTop),
      MkContainer("c1", NoLabels, NetNone), MkContainer("c2", RuleH, NetTop) }

UnitEvents ==
    { [action |-> "start", id |-> "c1"], [action |-> "start", id |-> "c2"],
      [action |-> "die", id |-> "c1"] }

UnitEventLists == UNION { [1..n -> UnitEvents] : n \in 1..MaxUnitEvents }

InspectUnit(i) == InspectFrom(i, UnitContainers)

InitRunUnits == RunStart(FALSE, UnitEventLists)

NextRunUnits ==
    \/ Receive
    \/ \E i \in 1..Len(routines) : InspectUnit(i)
    \/ \E i \in 1..Len(routines) : Lock(i)
    \/ \E i \in 1..Len(routines) : DeleteOld(i)
    \/ \E i \in 1..Len(routines) : Store(i)
    \/ \E i \in 1..Len(routines) : Remove(i)
    \/ \E i \in 1..Len(routines) : Unlock(i)
    \/ \E i \in 1..Len(routines) : TaskList(i, TRUE)
    \/ \E i \in 1..Len(routines) : TaskWrite(i, TRUE)

SpecRunUnits == InitRunUnits /\ [][NextRunUnits]_vars

(* The goroutines of the handlers and lookups are scheduled fairly and the *)
(* locks of sync.RWMutex are granted; nothing is assumed of the provider:  *)
(* a provider call may never return.                                       *)
SpecRunFair == SpecRun /\ WF_vars(RegistryStep)

(* The plugin at run time with a TunnelSyncer as well.  The handlers      *)
(* dispatch as the implementation plan routes (steps 15 to 17); AddRoutes  *)
(* and RemoveRoutes take s.mu for the whole call, provider calls included. *)

TunnelRunContainers ==
    { MkContainer("c1", RuleH, NetTop), MkContainer("c1", RuleH @@ TunnelURL, NetTop) }

InspectTunnel(i) == InspectFrom(i, TunnelRunContainers)

\* go dd.tunnelSyncer.AddRoutes / RemoveRoutes, or the go statement of the CloudflareSyncer
SpawnRouted(rs, dispatched) ==
    IF dispatched = <<>> THEN rs
    ELSE IF Head(dispatched).op \in {"AddRoutes", "RemoveRoutes"}
    THEN Append(rs, Routine(Head(dispatched).op, "mu.Lock", "", InspectError,
                            Head(dispatched).names, <<>>) @@ [call |-> Head(dispatched)])
    ELSE Spawn(rs, dispatched)

\* updateContainerInfo: resolve, store the entry with its service URL, dispatch
StoreRouted(i) ==
    /\ routines[i].kind = "start" /\ routines[i].pc = "store"
    /\ LET container == routines[i].container IN
       \E labelOrder \in Orders(DOMAIN container.Labels),
          netOrder \in Orders(DOMAIN container.Networks),
          inspect \in InspectChoices(container) :
           \E info \in {WithServiceURL(NewContainerInfo(container, labelOrder, netOrder, inspect,
                                                        traefikCNAME, traefikA),
                                       tunnelServiceURL(container))} :
              /\ containerInfoMap' = StoreEntry(containerInfoMap, container.ID, info)
              /\ routines' = SpawnRouted([routines EXCEPT ![i].pc = "Unlock"],
                                         UpdateDispatchRouted(info, tunnelServiceURL(container)))
    /\ last' = [last EXCEPT !.handled = Append(@, [action |-> "start", id |-> routines[i].id])]
    /\ UNCHANGED <<traefikCNAME, traefikA, resp, records, nextID, tunnelIngress, tunnelOrigin, tunnelWarp, calls,
                   tunnelSyncer, mutex, mu, events>>

\* removeContainerInfo: dispatch, delete the entry
RemoveRouted(i) ==
    /\ routines[i].kind = "die" /\ routines[i].pc = "remove"
    /\ routines' = SpawnRouted([routines EXCEPT ![i].pc = "Unlock"],
                               RemoveDispatchRouted(containerInfoMap, routines[i].id))
    /\ containerInfoMap' = RemoveEntry(containerInfoMap, routines[i].id)
    /\ last' = [last EXCEPT !.handled = Append(@, [action |-> "die", id |-> routines[i].id])]
    /\ UNCHANGED <<traefikCNAME, traefikA, resp, records, nextID, tunnelIngress, tunnelOrigin, tunnelWarp, calls,
                   tunnelSyncer, mutex, mu, events>>

\* a Lock that does not wait for the call that holds s.mu
TunnelLockUnguarded(i) ==
    /\ routines[i].kind \in {"AddRoutes", "RemoveRoutes"} /\ routines[i].pc = "mu.Lock"
    /\ mu' = TRUE
    /\ routines' = [routines EXCEPT ![i].pc = "Get"]
    /\ UNCHANGED <<traefikCNAME, traefikA, containerInfoMap, resp, syncVars, tunnelSyncer, mutex, events>>

\* s.mu.Lock() of AddRoutes and RemoveRoutes
TunnelLock(i) ==
    /\ routines[i].kind \in {"AddRoutes", "RemoveRoutes"} /\ routines[i].pc = "mu.Lock"
    /\ ~mu
    /\ mu' = TRUE
    /\ routines' = [routines EXCEPT ![i].pc = "Get"]
    /\ UNCHANGED <<traefikCNAME, traefikA, containerInfoMap, resp, syncVars, tunnelSyncer, mutex, events>>

\* the provider calls of AddRoutes / RemoveRoutes return, and the deferred s.mu.Unlock() runs
TunnelRun(i, fail) ==
    /\ routines[i].kind \in {"AddRoutes", "RemoveRoutes"} /\ routines[i].pc = "Get"
    /\ \E w \in {IF routines[i].kind = "AddRoutes"
                 THEN RunAddRoutes(World, routines[i].names, routines[i].call.serviceURL, fail)
                 ELSE RunRemoveRoutes(World, routines[i].names, fail)} :
          /\ w.nextID <= MaxRecordID + 1
          /\ records' = w.records
          /\ nextID' = w.nextID
          /\ tunnelIngress' = w.ingress
          /\ UNCHANGED <<tunnelOrigin, tunnelWarp>>
          /\ calls' = w.calls
          /\ last' = [last EXCEPT !.failed = @ \/ \E k \in 1..Len(w.calls) : ~w.calls[k].ok]
    /\ mu' = FALSE
    /\ routines' = Drop(routines, i)
    /\ UNCHANGED <<traefikCNAME, traefikA, containerInfoMap, resp, tunnelSyncer, mutex, events>>

InitRunTunnel == RunStart(TRUE, EventLists)

RegistryStepRouted ==
    \/ Receive
    \/ \E i \in 1..Len(routines) : InspectTunnel(i)
    \/ \E i \in 1..Len(routines) : Lock(i)
    \/ \E i \in 1..Len(routines) : DeleteOld(i)
    \/ \E i \in 1..Len(routines) : StoreRouted(i)
    \/ \E i \in 1..Len(routines) : RemoveRouted(i)
    \/ \E i \in 1..Len(routines) : Unlock(i)
    \/ \E i \in 1..Len(routines) : RLock(i)
    \/ \E i \in 1..Len(routines) : Scan(i)

TunnelStep ==
    \/ \E i \in 1..Len(routines) : TunnelLock(i)
    \/ \E i \in 1..Len(routines), fail \in {{}, {1}, {2}} : TunnelRun(i, fail)

NextRunTunnel ==
    \/ RegistryStepRouted
    \/ \E qname \in RunQNames : Query(qname)
    \/ SyncerStep
    \/ TunnelStep

SpecRunTunnel == InitRunTunnel /\ [][NextRunTunnel]_vars

\* fair handlers and lookups; a provider call, and with it s.mu.Unlock(), may never come
SpecRunTunnelFair == SpecRunTunnel /\ WF_vars(RegistryStepRouted)

----------------------------------------------------------------------------
(* Two calls of one TunnelSyncer, each a goroutine of its own: s.mu.Lock,  *)
(* GetTunnelConfiguration, the change of the local copy and                *)
(* UpdateTunnelConfiguration, the DNS records, and the deferred Unlock.    *)

\* the origin and WARP configurations somebody gave the tunnel
TunnelOrigins == {NoOrigin, "noTLSVerify"}
TunnelWarps == {NoWarp, "enabled"}

\* the calls the handlers dispatch
TunnelCalls ==
    { [op |-> "AddRoutes", names |-> << <<"h", ".", "n">> >>, serviceURL |-> "http://s1"],
      [op |-> "AddRoutes", names |-> << <<"h", ".", "n">> >>, serviceURL |-> "http://s2"],
      [op |-> "AddRoutes", names |-> << <<"e", ".", "h", ".", "n">>, <<"u", ".", "o">> >>,
       serviceURL |-> "http://s1"],
      [op |-> "RemoveRoutes", names |-> << <<"h", ".", "n">> >>, serviceURL |-> ""],
      [op |-> "RemoveRoutes", names |-> << <<"u", ".", "o">>, <<"e", ".", "h", ".", "n">> >>,
       serviceURL |-> ""] }

\* cloudflare.TunnelConfiguration
TunnelConfiguration(ingress, warpRouting, originRequest) ==
    [Ingress |-> ingress, WarpRouting |-> warpRouting, OriginRequest |-> originRequest]

\* the zero value of cloudflare.TunnelConfigurationResult.Config
ZeroConfig == TunnelConfiguration(<<>>, NoWarp, NoOrigin)

\* mockCloudflareAPI.GetTunnelConfiguration
GetTunnelConfiguration == TunnelConfiguration(tunnelIngress, tunnelWarp, tunnelOrigin)

\* the goroutine of the n-th call
TunnelRoutine(call, n) ==
    Routine(call.op, "mu.Lock", "", InspectError, call.names, <<>>)
        @@ [call |-> call, n |-> n, result |-> ZeroConfig]

\* a provider call of the n-th call: its name, whether it succeeded, and the
\* configuration it returned or carried
Made(n, api, ok, config) == [n |-> n, api |-> api, ok |-> ok, config |-> config]

\* the provider calls of the DNS loop of the n-th call
MadeEach(n, made) == [k \in 1..Len(made) |-> Made(n, made[k].api, made[k].ok, ZeroConfig)]

\* what the run of the calls recorded: the calls, the ingress list they
\* started from, the provider calls they made, and whether one failed
TunnelLog(started, ingress, made, failed) ==
    [op |-> "calls", started |-> started, ingress |-> ingress, made |-> made, failed |-> failed]

\* a GetTunnelConfiguration whose error is ignored
TunnelGetGoesOn(i, ok) ==
    /\ routines[i].kind \in {"AddRoutes", "RemoveRoutes"} /\ routines[i].pc = "Get"
    /\ \E result \in {IF ok THEN GetTunnelConfiguration ELSE ZeroConfig} :
          /\ routines' = [routines EXCEPT ![i].pc = "Put", ![i].result = result]
          /\ last' = [last EXCEPT !.made = Append(@, Made(routines[i].n, "GetTunnelConfiguration", ok, result)),
                                  !.failed = @ \/ ~ok]
    /\ calls' = DoGetTunnelConfiguration(World, FailIf(~ok)).calls
    /\ UNCHANGED <<traefikCNAME, traefikA, containerInfoMap, resp, records, nextID, tunnelIngress,
                   tunnelOrigin, tunnelWarp, tunnelSyncer, mutex, mu, events>>

\* s.api.GetTunnelConfiguration returns: the call keeps the result, or logs
\* the error and returns, and the deferred s.mu.Unlock() runs
TunnelGet(i, ok) ==
    /\ routines[i].kind \in {"AddRoutes", "RemoveRoutes"} /\ routines[i].pc = "Get"
    /\ \E result \in {IF ok THEN GetTunnelConfiguration ELSE ZeroConfig} :
          /\ IF ok
             THEN /\ routines' = [routines EXCEPT ![i].pc = "Put", ![i].result = result]
                  /\ UNCHANGED mu
             ELSE /\ routines' = Drop(routines, i)
                  /\ mu' = FALSE
          /\ last' = [last EXCEPT !.made = Append(@, Made(routines[i].n, "GetTunnelConfiguration", ok, result)),
                                  !.failed = @ \/ ~ok]
    /\ calls' = DoGetTunnelConfiguration(World, FailIf(~ok)).calls
    /\ UNCHANGED <<traefikCNAME, traefikA, containerInfoMap, resp, records, nextID, tunnelIngress,
                   tunnelOrigin, tunnelWarp, tunnelSyncer, mutex, events>>

\* the filter loop of RemoveRoutes: st = [ingress, modified]
RemoveRouteEach(ingress, hostnames) ==
    LET removeSet == {hostnames[i] : i \in {j \in 1..Len(hostnames) : ~Excluded(hostnames[j])}}
    IN [ingress |-> SelectSeq(ingress, LAMBDA rule : rule.Hostname \notin removeSet),
        modified |-> \E i \in 1..Len(ingress) : ingress[i].Hostname \in removeSet]

\* the local copy of the ingress list after the loops of the call
Mutated(call, result) ==
    IF call.op = "AddRoutes"
    THEN AddRouteEach([ingress |-> result.Ingress, modified |-> FALSE], call.names, call.serviceURL)
    ELSE RemoveRouteEach(result.Ingress, call.names)

\* params that carry the ingress list only
PutParamsIngressOnly(result, ingress) == TunnelConfiguration(ingress, NoWarp, NoOrigin)

\* cloudflare.TunnelConfigurationParams.Config of AddRoutes and RemoveRoutes
PutParams(result, ingress) ==
    TunnelConfiguration(ingress, result.WarpRouting, result.OriginRequest)

\* the call has changed its copy of the list and s.api.UpdateTunnelConfiguration
\* returns: the provider holds the pushed configuration, or the call logs the
\* error and returns; a call that changed nothing goes on to the DNS records
TunnelPut(i, ok) ==
    /\ routines[i].kind \in {"AddRoutes", "RemoveRoutes"} /\ routines[i].pc = "Put"
    /\ \E st \in {Mutated(routines[i].call, routines[i].result)} :
       \E params \in {PutParams(routines[i].result, st.ingress)} :
          IF ~st.modified
          THEN /\ ok
               /\ routines' = [routines EXCEPT ![i].pc = "DNS"]
               /\ UNCHANGED <<tunnelIngress, tunnelOrigin, tunnelWarp, calls, last, mu>>
          ELSE /\ calls' = UpdateTunnelConfiguration(World, params.Ingress, FailIf(~ok)).calls
               /\ last' = [last EXCEPT !.made = Append(@, Made(routines[i].n, "UpdateTunnelConfiguration",
                                                                ok, params)),
                                       !.failed = @ \/ ~ok]
               /\ IF ok
                  THEN /\ tunnelIngress' = params.Ingress
                       /\ tunnelOrigin' = params.OriginRequest
                       /\ tunnelWarp' = params.WarpRouting
                       /\ routines' = [routines EXCEPT ![i].pc = "DNS"]
                       /\ UNCHANGED mu
                  ELSE /\ routines' = Drop(routines, i)
                       /\ mu' = FALSE
                       /\ UNCHANGED <<tunnelIngress, tunnelOrigin, tunnelWarp>>
    /\ UNCHANGED <<traefikCNAME, traefikA, containerInfoMap, resp, records, nextID,
                   tunnelSyncer, mutex, events>>

\* the DNS loop of the call, and the deferred s.mu.Unlock()
TunnelDNS(i, fail) ==
    /\ routines[i].kind \in {"AddRoutes", "RemoveRoutes"} /\ routines[i].pc = "DNS"
    /\ \E w \in {IF routines[i].kind = "AddRoutes"
                 THEN UpsertEach(World, routines[i].names, fail)
                 ELSE DeleteDNSEach(World, routines[i].names, fail)} :
          /\ w.nextID <= MaxRecordID + 1
          /\ records' = w.records
          /\ nextID' = w.nextID
          /\ calls' = w.calls
          /\ last' = [last EXCEPT !.made = @ \o MadeEach(routines[i].n, w.calls),
                                  !.failed = @ \/ \E k \in 1..Len(w.calls) : ~w.calls[k].ok]
    /\ mu' = FALSE
    /\ routines' = Drop(routines, i)
    /\ UNCHANGED <<traefikCNAME, traefikA, containerInfoMap, resp, tunnelIngress, tunnelOrigin,
                   tunnelWarp, tunnelSyncer, mutex, events>>

\* two calls are dispatched to the syncer of a tunnel that has a configuration
InitTunnelCalls ==
    /\ traefikCNAME = <<>>
    /\ traefikA = NoIP
    /\ containerInfoMap = [id \in ContainerIDs |-> NoInfo]
    /\ resp = NoResp
    /\ records = NoRecords
    /\ nextID = FirstFreeID
    /\ tunnelIngress \in {<<>>, SeededIngress}
    /\ tunnelOrigin \in TunnelOrigins
    /\ tunnelWarp \in TunnelWarps
    /\ calls = <<>>
    /\ tunnelSyncer = TRUE
    /\ mutex = Unlocked
    /\ mu = FALSE
    /\ events = <<>>
    /\ \E first \in TunnelCalls, second \in TunnelCalls :
          /\ routines = << TunnelRoutine(first, 1), TunnelRoutine(second, 2) >>
          /\ last = TunnelLog(<<first, second>>, tunnelIngress, <<>>, FALSE)

NextTunnelCalls ==
    \/ \E i \in 1..Len(routines) : TunnelLock(i)
    \/ \E i \in 1..Len(routines), ok \in BOOLEAN : TunnelGet(i, ok)
    \/ \E i \in 1..Len(routines), ok \in BOOLEAN : TunnelPut(i, ok)
    \/ \E i \in 1..Len(routines), fail \in {{}, {1}} : TunnelDNS(i, fail)

SpecTunnelCalls == InitTunnelCalls /\ [][NextTunnelCalls]_vars

----------------------------------------------------------------------------
(* Properties of the routed dispatch (SpecRouted).                         *)

TunnelOps == {"AddRoutes", "RemoveRoutes"}
DNSOps == {"SyncDomains", "RemoveDomains"}

\* the syncers the last handler dispatched to
DispatchedTo ==
    { IF last.dispatched[i].op \in TunnelOps THEN "TunnelSyncer" ELSE "CloudflareSyncer" :
        i \in 1..Len(last.dispatched) }

\* the entry the last handler reconciles: the one it stored, or the one it removed
Reconciled ==
    IF last.op = "updateContainerInfo" THEN containerInfoMap[last.id] ELSE last.infoMap[last.id]

\* the unit of the last handler carries a tunnel service URL and a TunnelSyncer is configured
TunnelRouted ==
    /\ tunnelSyncer
    /\ Reconciled.present
    /\ Reconciled.tunnelServiceURL # <<>>

(* C24: every updateContainerInfo and removeContainerInfo dispatches to    *)
(* exactly one of the two syncers: to the TunnelSyncer when one is         *)
(* configured and the unit carries a service URL, to the CloudflareSyncer  *)
(* otherwise.                                                              *)
C24_ExactlyOneSyncer ==
    (Did("updateContainerInfo") \/ Did("removeContainerInfo")) =>
        /\ Len(last.dispatched) = 1
        /\ DispatchedTo = IF TunnelRouted THEN {"TunnelSyncer"} ELSE {"CloudflareSyncer"}

(* C24, amended: every updateContainerInfo and removeContainerInfo         *)
(* dispatches at most one call and never to both syncers: AddRoutes or     *)
(* RemoveRoutes with the redirect names of the entry when a TunnelSyncer   *)
(* is configured and the entry carries a service URL; otherwise            *)
(* SyncDomains or RemoveDomains, and only when the entry exists and has    *)
(* redirect names; nothing at all without an entry.                        *)
C24_OneSyncerPerUnit ==
    (Did("updateContainerInfo") \/ Did("removeContainerInfo")) =>
        /\ Len(last.dispatched) <= 1
        /\ Cardinality(DispatchedTo) <= 1
        /\ TunnelRouted =>
              /\ Len(last.dispatched) = 1
              /\ last.dispatched[1].op =
                    (IF Did("updateContainerInfo") THEN "AddRoutes" ELSE "RemoveRoutes")
              /\ last.dispatched[1].names = Reconciled.cnameDomains
              /\ Did("updateContainerInfo") =>
                    last.dispatched[1].serviceURL = tunnelServiceURL(last.container)
        /\ (~TunnelRouted /\ Reconciled.present /\ Len(Reconciled.cnameDomains) > 0) =>
              /\ Len(last.dispatched) = 1
              /\ last.dispatched[1].op =
                    (IF Did("updateContainerInfo") THEN "SyncDomains" ELSE "RemoveDomains")
              /\ last.dispatched[1].names = Reconciled.cnameDomains
        /\ (~TunnelRouted /\ ~(Reconciled.present /\ Len(Reconciled.cnameDomains) > 0)) =>
              last.dispatched = <<>>

\* a unit with the cf_tunnel label and redirect names, without a TunnelSyncer: DNS sync
C24_Witness ==
    /\ Did("updateContainerInfo")
    /\ ~tunnelSyncer
    /\ tunnelServiceURL(last.container) # <<>>
    /\ Len(last.dispatched) = 1
    /\ last.dispatched[1].op = "SyncDomains"

\* the same unit with a TunnelSyncer: tunnel routes
C24_TunnelReached ==
    /\ Did("removeContainerInfo")
    /\ TunnelRouted
    /\ Len(Reconciled.cnameDomains) > 0
    /\ last.dispatched[1].op = "RemoveRoutes"

----------------------------------------------------------------------------
(* Properties of the plugin at run time (SpecRun, SpecRunFair).            *)

\* the goroutines of the given kinds that are at one of the given places
At(kinds, pcs) == { i \in 1..Len(routines) : routines[i].kind \in kinds /\ routines[i].pc \in pcs }

\* the handlers between their Lock and their Unlock
Writers == At(HandlerKinds, {"delete", "store", "remove", "Unlock"})

\* the lookups between their RLock and their RUnlock
Readers == At({"lookup"}, {"scan"})

\* an updateContainerInfo that has deleted the entry it replaces and not yet stored the new one
Replacing ==
    { i \in At({"start"}, {"store"}) :
        last.committed[routines[i].id].present /\ ~containerInfoMap[routines[i].id].present }

(* C27: updateContainerInfo, removeContainerInfo and containerInfoByDomain *)
(* exclude each other as writers and readers: at most one handler is       *)
(* between Lock and Unlock, and none while a lookup is between RLock and   *)
(* RUnlock; a lookup scans the map as the last Unlock left it, so it sees  *)
(* an entry as it was before an update or as the update left it, never the *)
(* map with the old entry deleted and the new one not yet stored.          *)
C27_RegistryExclusion ==
    /\ Cardinality(Writers) <= 1
    /\ Writers # {} => Readers = {}
    /\ Readers # {} => containerInfoMap = last.committed
    /\ ~last.seen.torn

\* a lookup waits for the read lock while an update is between its delete and its store
C27_Witness ==
    /\ Replacing # {}
    /\ At({"lookup"}, {"RLock"}) # {}

\* a lookup found the old entry while the update that replaces it waits for the lock
C27_SeenOld ==
    /\ last.seen.found
    /\ \E i \in At({"start"}, {"Lock"}) : containerInfoMap[routines[i].id].present

\* the redirect names updateContainerInfo resolves for the container, whatever Inspect returns
RedirectDomainsOf(id) ==
    UNION { Range(resolveDomainsByContainer(container, labelOrder, netOrder,
                                            traefikCNAME, traefikA).cnameDomains) :
              container \in {c \in RunContainers : c.ID = id},
              labelOrder \in Orders(DOMAIN RuleH),
              netOrder \in Orders({}) }

\* the CNAME records the provider holds for the names
CnamesHeld(names) ==
    { rec \in UNION {Range(records[z]) : z \in ZoneIDs} : rec.Type = "CNAME" /\ rec.Name \in names }

\* the handlers applied a start of the container and, after it and last, its die
StartedThenStopped(id) ==
    LET mine == SelectSeq(last.handled, LAMBDA e : e.id = id)
    IN /\ Len(mine) >= 2
       /\ mine[Len(mine)].action = "die"
       /\ mine[Len(mine) - 1].action = "start"

\* every event is handled, every syncer call has returned, and no provider call failed
Settled ==
    /\ events = <<>>
    /\ At(HandlerKinds \cup TaskKinds, {"Inspect", "Lock", "delete", "store", "remove", "Unlock",
                                        "List", "Write"}) = {}
    /\ ~last.failed

(* C23: once the start and then the die of a container are handled and    *)
(* the syncer calls they dispatched have returned without a provider       *)
(* error, the provider holds no CNAME record for a redirect name of the    *)
(* container that is neither excluded nor outside the zones, however the   *)
(* handlers and the syncer calls interleave.                               *)
C23_StoppedLeavesNoRecord ==
    (Settled /\ StartedThenStopped("c1")) =>
        CnamesHeld({ name \in RedirectDomainsOf("c1") :
                       ~Excluded(name) /\ findZoneForDomain(name) # NoZone }) = {}

\* the run in which the syncer calls follow the order of the events
C23_InOrderReached ==
    /\ Settled /\ StartedThenStopped("c1")
    /\ nextID > 1
    /\ CnamesHeld(RedirectDomainsOf("c1")) = {}

\* no event waits to be received, no handler and no lookup is running, the lock is free
RegistryIdle ==
    /\ events = <<>>
    /\ At(HandlerKinds \cup {"lookup"},
          {"Inspect", "Lock", "delete", "store", "remove", "Unlock", "RLock", "scan"}) = {}
    /\ mutex = Unlocked

(* C26: whatever the provider does - its calls fail, or never return, so   *)
(* that the syncer calls never finish - every received event is handled    *)
(* to its Unlock, every pending event is received and handled after it,    *)
(* and every lookup returns: whenever an event, a handler or a lookup is   *)
(* pending, a state follows in which none is and the lock is free.         *)
C26_FireAndForget == (~RegistryIdle) ~> RegistryIdle

\* both events are applied and a lookup is answered while the two syncer calls
\* they dispatched have not made a provider call that returned
C26_Witness ==
    /\ RegistryIdle
    /\ Len(last.handled) = 2
    /\ last.seen.qname # <<>>
    /\ Cardinality(At(TaskKinds, {"List"})) = 2
    /\ calls = <<>>

\* the same with provider calls that failed
C26_FailedReached ==
    /\ RegistryIdle
    /\ Len(last.handled) = 2
    /\ last.failed
    /\ nextID = 1

\* the same with a TunnelSyncer, whose calls hold s.mu while they wait for the provider
C26_TunnelFireAndForget == (~RegistryIdle) ~> RegistryIdle

\* both events are applied while AddRoutes holds s.mu and RemoveRoutes waits for it
C26_TunnelStuckReached ==
    /\ RegistryIdle
    /\ Len(last.handled) = 2
    /\ mu
    /\ At({"AddRoutes"}, {"Get"}) # {}
    /\ At({"RemoveRoutes"}, {"mu.Lock"}) # {}

\* the events of the container, in the order the handlers applied them
HandledOf(id) == SelectSeq(last.handled, LAMBDA e : e.id = id)

\* no event waits and no handler runs
HandlersDone ==
    /\ events = <<>>
    /\ At(HandlerKinds, {"Inspect", "Lock", "delete", "store", "remove", "Unlock"}) = {}

(* C32: the handlers of the events of one container run as goroutines of   *)
(* their own and apply their events in the order they take the lock, not   *)
(* in the order of the events: once all handlers have returned, the        *)
(* container has an entry exactly when the handler that took the lock last *)
(* was that of a start (all starts here store an entry), also when the     *)
(* start was sent first and the die last.                                  *)
C32_LastLockWins ==
    (HandlersDone /\ HandledOf("c1") # <<>>) =>
        (containerInfoMap["c1"].present <=>
            HandledOf("c1")[Len(HandledOf("c1"))].action = "start")

\* start was sent before die, the die was applied first, and the entry is there at the end
C32_Witness ==
    /\ HandlersDone
    /\ HandledOf("c1") = << [action |-> "die", id |-> "c1"], [action |-> "start", id |-> "c1"] >>
    /\ containerInfoMap["c1"].present

----------------------------------------------------------------------------
(* Further properties of the registry (SpecRegistry).                      *)

\* the names of the registered entries, plain and redirect
StoredNames ==
    UNION { Range(containerInfoMap[id].domains) \cup Range(containerInfoMap[id].cnameDomains) :
              id \in Registered(containerInfoMap) }

\* the root name, as a query carries it
RootName == <<".">>

(* C37: no entry of the registry holds the empty string as a domain, and   *)
(* so containerInfoByDomain finds nothing for the root name ".".           *)
C37_NoEmptyDomain ==
    /\ <<>> \notin StoredNames
    /\ \A mapOrder \in Orders(Registered(containerInfoMap)) :
          ~containerInfoByDomain(containerInfoMap, mapOrder, RootName).found

----------------------------------------------------------------------------
(* Properties of the handlers of containers in another container's         *)
(* network namespace (SpecRunIndirect).                                    *)

\* the handlers that hold the write lock and wait for InspectContainerWithOptions
Inspecting == At({"start"}, {"InspectOther"})

(* C36: no handler holds the write lock of the registry while it waits for *)
(* a call to the Docker daemon or to the provider, so no lookup waits for  *)
(* the read lock behind such a call.                                       *)
C36_NoLockAcrossCalls ==
    /\ mutex.writer => Inspecting = {}
    /\ ~(Inspecting # {} /\ At({"lookup"}, {"RLock"}) # {})

(* C38: the address resolution a handler has begun returns: the loop of    *)
(* getContainerAddress over the containers pointing at one another ends,   *)
(* whatever the daemon returns for them.                                   *)
C38_ResolutionTerminates ==
    \A i \in Inspecting :
        ~getContainerAddress(routines[i].container, FALSE, routines[i].inspect).loops

----------------------------------------------------------------------------
(* Properties of containers that share a redirect name, or change theirs   *)
(* (SpecRunUnits).                                                         *)

\* the CNAME records the provider holds, in all zones
AllCnames == { rec \in UNION {Range(records[z]) : z \in ZoneIDs} : rec.Type = "CNAME" }

\* the record IDs of the CNAME records the provider holds for the name in the zone
CnameIDs(recs, z, name) ==
    { recs[z][k].ID : k \in { j \in DOMAIN recs[z] : recs[z][j].Type = "CNAME" /\ recs[z][j].Name = name } }

(* C33: the provider holds at most one CNAME record per zone and name,     *)
(* however the SyncDomains calls that name the same domain interleave.     *)
C33_OneRecordPerName ==
    \A z \in ZoneIDs : \A rec \in Range(records[z]) :
        Cardinality(CnameIDs(records, z, rec.Name)) <= 1

\* the redirect names of the registered containers
RegisteredCnames(infoMap) ==
    UNION { Range(infoMap[id].cnameDomains) : id \in Registered(infoMap) }

(* C34: no step deletes a CNAME record of a name that a registered         *)
(* container has among its redirect domains.                               *)
C34_KeptWhileRegistered ==
    [][ \A z \in ZoneIDs : \A name \in RegisteredCnames(containerInfoMap) :
            CnameIDs(records, z, name) \subseteq CnameIDs(records', z, name) ]_vars

\* only starts of the one container were handled
OnlyStartsOf(id) ==
    /\ last.handled # <<>>
    /\ \A k \in DOMAIN last.handled :
          last.handled[k].action = "start" /\ last.handled[k].id = id

(* C35: once the starts of one container are handled - it is the only one  *)
(* registered - and the syncer calls they dispatched have returned without *)
(* a provider error, the provider holds CNAME records only for redirect    *)
(* names the container has now: none for a name an earlier start gave it   *)
(* and a later one dropped, none at all when it has no entry any more.     *)
C35_DroppedNameRemoved ==
    (Settled /\ OnlyStartsOf("c1")) =>
        \A rec \in AllCnames : rec.Name \in RegisteredCnames(containerInfoMap)

----------------------------------------------------------------------------
(* Properties of concurrent calls of one TunnelSyncer (SpecTunnelCalls).   *)

\* the ingress list after the calls ran one after another, none failing
RECURSIVE SequentialIngress(_, _)
SequentialIngress(ingress, started) ==
    IF started = <<>> THEN ingress
    ELSE LET w == [records |-> NoRecords, nextID |-> FirstFreeID, ingress |-> ingress, calls |-> <<>>]
             call == Head(started)
         IN SequentialIngress(IF call.op = "AddRoutes"
                              THEN RunAddRoutes(w, call.names, call.serviceURL, {}).ingress
                              ELSE RunRemoveRoutes(w, call.names, {}).ingress,
                              Tail(started))

\* the hostnames of the rules of the list
RuleHostnames(ingress) == { ingress[k].Hostname : k \in 1..Len(ingress) }

(* C31: when both calls have returned and no provider call failed, the     *)
(* ingress list of the tunnel is the one that results from the two calls   *)
(* run one after the other in one of the two orders, however the steps of  *)
(* the calls interleave.                                                   *)
C31_CallsSerialized ==
    (routines = <<>> /\ ~last.failed) =>
        \E order \in Orders(1..2) :
            tunnelIngress = SequentialIngress(last.ingress, [k \in 1..2 |-> last.started[order[k]]])

\* two AddRoutes for different hostnames ran against an empty list, the call
\* dispatched second took s.mu first, and both rules are there
C31_Witness ==
    /\ routines = <<>> /\ ~last.failed
    /\ last.ingress = <<>>
    /\ last.started[1].op = "AddRoutes" /\ last.started[2].op = "AddRoutes"
    /\ {<<"h", ".", "n">>, <<"u", ".", "o">>} \subseteq RuleHostnames(tunnelIngress)
    /\ Len(last.made) >= 4
    /\ last.made[1].n = 2 /\ last.made[2].n = 2

\* the second call waits for s.mu while the first holds the configuration it read
C31_WaitingReached ==
    /\ mu
    /\ \E i, j \in 1..Len(routines) : routines[i].pc = "Put" /\ routines[j].pc = "mu.Lock"

\* the positions of the provider calls of the n-th call with that name
MadeBy(n, api) == { k \in 1..Len(last.made) : last.made[k].n = n /\ last.made[k].api = api }

\* the rules whose hostname the call does not work on
OtherRules(ingress, call) ==
    SelectSeq(ingress, LAMBDA rule :
        rule.Hostname \notin { call.names[k] : k \in { j \in 1..Len(call.names) : ~Excluded(call.names[j]) } })

(* C39: every UpdateTunnelConfiguration of a call carries the origin and   *)
(* the WARP configuration its GetTunnelConfiguration returned, and the     *)
(* rules whose hostname is not a non-excluded name of the call are in the  *)
(* pushed list as they were in the returned one, in the same order with    *)
(* the same service (the catch-all AddRoutes appends to an empty list is   *)
(* a new rule after them).                                                 *)
C39_PutKeepsTheRest ==
    \A n \in 1..2 : \A p \in MadeBy(n, "UpdateTunnelConfiguration") :
        \E g \in MadeBy(n, "GetTunnelConfiguration") :
            LET got == last.made[g].config
                put == last.made[p].config
                call == last.started[n]
            IN /\ g < p
               /\ put.OriginRequest = got.OriginRequest
               /\ put.WarpRouting = got.WarpRouting
               /\ \/ OtherRules(put.Ingress, call) = OtherRules(got.Ingress, call)
                  \/ /\ got.Ingress = <<>>
                     /\ OtherRules(put.Ingress, call) = <<CatchAll>>

\* a call pushed a changed list of a tunnel that has an origin and a WARP
\* configuration and rules the call does not work on
C39_Witness ==
    \E n \in 1..2 : \E p \in MadeBy(n, "UpdateTunnelConfiguration") :
        /\ last.made[p].ok
        /\ last.made[p].config.OriginRequest = "noTLSVerify"
        /\ last.made[p].config.WarpRouting = "enabled"
        /\ last.ingress = SeededIngress
        /\ Len(OtherRules(last.made[p].config.Ingress, last.started[n])) >= 2
        /\ tunnelOrigin = "noTLSVerify" /\ tunnelWarp = "enabled"

\* the step in which a GetTunnelConfiguration returns an error
GetFailed ==
    /\ Len(last'.made) = Len(last.made) + 1
    /\ last'.made[Len(last'.made)].api = "GetTunnelConfiguration"
    /\ ~last'.made[Len(last'.made)].ok

\* a call whose GetTunnelConfiguration failed made no other provider call
NothingAfterFailedGet ==
    \A n \in 1..2 :
        (\E g \in MadeBy(n, "GetTunnelConfiguration") : ~last.made[g].ok) =>
            Cardinality({ k \in 1..Len(last.made) : last.made[k].n = n }) = 1

(* C40: the step in which GetTunnelConfiguration fails leaves the ingress  *)
(* list, the tunnel configuration and the records as they are and ends     *)
(* with s.mu free, and the call makes no provider call after it: no        *)
(* UpdateTunnelConfiguration and no DNS-record call.                       *)
C40_FailedGetChangesNothing ==
    [][ /\ GetFailed =>
            /\ UNCHANGED <<records, nextID, tunnelIngress, tunnelOrigin, tunnelWarp>>
            /\ ~mu'
        /\ NothingAfterFailedGet' ]_vars

\* the GET of one call failed, and the other call took s.mu after it and pushed its list
C40_Witness ==
    \E g, p \in 1..Len(last.made) :
        /\ g < p
        /\ last.made[g].api = "GetTunnelConfiguration" /\ ~last.made[g].ok
        /\ last.made[p].api = "UpdateTunnelConfiguration" /\ last.made[p].ok
        /\ last.made[p].n # last.made[g].n
        /\ tunnelIngress # last.ingress

====
